---- MODULE Spec2Model ----
(***************************************************************************)
(* Ready or Not mod launcher: the entity model (models.py), the activation *)
(* engine (mod_manager.py) and the front-end handlers that drive them      *)
(* (main.py, widgets.py); then the game path resolver, the persistence     *)
(* store over raw documents, the library import and the conflict           *)
(* heuristics, each under a specification of its own that draws its inputs *)
(* in its initial states; and the activate and deactivate requests taken   *)
(* one file system call at a time.                                         *)
(*                                                                         *)
(* File names, directory entry names and paths are sequences of characters *)
(* so that prefixing and the startswith test are computed, not assumed.    *)
(***************************************************************************)
EXTENDS Integers, Sequences, FiniteSets, TLC

VARIABLES
    instances,          \* instances/<name>/instance.json on disk
    current_instance,   \* MainWindow.current_instance
    state,              \* MainWindow.state (the in-memory AppState)
    state_file,         \* state.json on disk
    library,            \* file names present in the library directory (mods/)
    game_mods_dir,      \* ModManager.game_mods_dir
    gameDir,            \* entries of the game's mod directory on disk
    last,               \* the last completed request and what it returned
    steps,              \* number of requests completed so far
    running,            \* the request in progress and how far it got
    libraries,          \* the candidate Steam library roots, as they are on disk
    resolution,         \* what _detect_game_path left in the ModManager
    data_dir,           \* the data directory, its documents as they are on disk
    returned,           \* the last DataManager call and what it returned
    candidate,          \* the instance handed to detect_conflicts
    warnings            \* what detect_conflicts returned for it

resolverVars == <<libraries, resolution>>

storeVars == <<data_dir, returned>>

conflictVars == <<candidate, warnings>>

mainVars == <<instances, current_instance, state, state_file, library,
              game_mods_dir, gameDir, last, steps, running>>

vars == <<instances, current_instance, state, state_file, library,
          game_mods_dir, gameDir, last, steps, running,
          libraries, resolution, data_dir, returned, candidate, warnings>>

----------------------------------------------------------------------------
(* Bounds *)

MaxSteps == 6
MaxBatch == 2

----------------------------------------------------------------------------
(* Values *)

None == "None"

InstanceNames == {"A", "B"}

PakSuffix == <<".", "p", "a", "k">>

Pak(c) == <<c>> \o PakSuffix

Filenames == {Pak("a"), Pak("b")}

SYMLINK_PREFIX == <<"r", "o", "n", "m", "g", "r", "_">>

\* the resolved Saved/Paks directory of the compatibility prefix
PaksPath == <<"P", "a", "k", "s">>

NoPath == <<>>

NoTarget == <<>>

Absent == [kind |-> "absent", target |-> NoTarget]

RegularFile == [kind |-> "file", target |-> NoTarget]

Directory == [kind |-> "dir", target |-> NoTarget]

Symlink(t) == [kind |-> "symlink", target |-> t]

\* str(dest.absolute()) for dest = mods_dir / filename
LibraryPath(f) == <<"m", "o", "d", "s", "/">> \o f

\* Path(p).exists() for a path inside the library directory
PathExists(p, lib) == \E f \in lib : LibraryPath(f) = p

\* pak_file.stem
Stem(f) == SubSeq(f, 1, Len(f) - Len(PakSuffix))

\* pak_file.suffix.lower() == '.pak'
IsPak(f) ==
    /\ Len(f) > Len(PakSuffix)
    /\ SubSeq(f, Len(f) - Len(PakSuffix) + 1, Len(f)) = PakSuffix

\* str.startswith
startswith(s, p) == Len(s) >= Len(p) /\ SubSeq(s, 1, Len(p)) = p

\* f"{DataManager.SYMLINK_PREFIX}{mod.filename}"
SymlinkName(f) == SYMLINK_PREFIX \o f

\* entries of the game directory that do not belong to the manager
OtherName == <<"o", "t", "h", "e", "r">> \o PakSuffix

LinkName == <<"l", "i", "n", "k">> \o PakSuffix

Elsewhere == <<"e", "l", "s", "e">>

GameDirNames == {SymlinkName(f) : f \in Filenames} \cup {OtherName, LinkName}

----------------------------------------------------------------------------
(* Entity model: models.py *)

Mod(f) ==
    [name |-> Stem(f), filename |-> f, path |-> LibraryPath(f), enabled |-> TRUE]

Instance(n) == [name |-> n, mods |-> <<>>]

NoInstance == [name |-> None, mods |-> <<>>]

AppState == [active_instance |-> None, steam_path |-> None]

HasFilename(mods, f) == \E i \in 1..Len(mods) : mods[i].filename = f

\* add_mod without the scan for an existing file name
add_mod_AlwaysAppends(mods, mod) == [ok |-> TRUE, mods |-> Append(mods, mod)]

add_mod(mods, mod) ==
    IF HasFilename(mods, mod.filename)
    THEN [ok |-> FALSE, mods |-> mods]
    ELSE [ok |-> TRUE, mods |-> Append(mods, mod)]

IsNotFile(m, f) == m.filename # f

\* remove_mod that empties the list
remove_mod_Clears(mods, f) == <<>>

remove_mod(mods, f) == SelectSeq(mods, LAMBDA m : IsNotFile(m, f))

IsEnabled(m) == m.enabled

get_enabled_mods(mods) == SelectSeq(mods, IsEnabled)

----------------------------------------------------------------------------
(* Persistence store: models.py *)

load_instance(docs, n) == docs[n]

save_instance(docs, inst) == [docs EXCEPT ![inst.name] = inst]

delete_instance(docs, n) == [docs EXCEPT ![n] = NoInstance]

list_instances(docs) == {n \in InstanceNames : docs[n] # NoInstance}

NoStateFile == [exists |-> FALSE, doc |-> AppState]

\* save_state that writes the default state
save_state_WritesDefault(st) == [exists |-> TRUE, doc |-> AppState]

\* json.dump(state.to_dict()) into state.json
save_state(st) == [exists |-> TRUE, doc |-> st]

\* DataManager.list_library_mods: the library's package files as Mod records,
\* sorted by name.lower(); names here are one lower-case letter and a suffix
CharRank(c) == CASE c = "a" -> 1 [] c = "b" -> 2 [] c = "c" -> 3 [] OTHER -> 4

LessName(f, g) == CharRank(Stem(f)[1]) < CharRank(Stem(g)[1])

RECURSIVE SortedFiles(_)
SortedFiles(fs) ==
    IF fs = {} THEN <<>>
    ELSE LET f == CHOOSE x \in fs : \A y \in fs \ {x} : LessName(x, y)
         IN  <<f>> \o SortedFiles(fs \ {f})

list_library_mods(lib) ==
    LET paks == {f \in lib : IsPak(f)}
        order == SortedFiles(paks)
    IN  [i \in 1..Len(order) |-> Mod(order[i])]

\* import_mod without the test that the destination exists
import_mod_Overwrites(lib, f) ==
    IF ~IsPak(f) THEN [imported |-> FALSE, lib |-> lib]
    ELSE [imported |-> TRUE, lib |-> lib \cup {f}]

\* DataManager.import_mod for an existing external file named f:
\* a duplicate is never overwritten, otherwise the file is copied in
import_mod(lib, f) ==
    IF ~IsPak(f) THEN [imported |-> FALSE, lib |-> lib]
    ELSE IF f \in lib THEN [imported |-> FALSE, lib |-> lib]
    ELSE [imported |-> TRUE, lib |-> lib \cup {f}]

----------------------------------------------------------------------------
(* Activation engine: mod_manager.py *)

\* game_mods_dir is not None and game_mods_dir.exists(): the resolver only
\* returns a directory that exists, and nothing modelled removes it
is_game_path_valid(g) == g # NoPath

\* get_managed_symlinks without the is_symlink() test
get_managed_symlinks_AnyPrefixedEntry(g, dir) ==
    IF ~is_game_path_valid(g) THEN {}
    ELSE {n \in DOMAIN dir :
            dir[n].kind # "absent" /\ startswith(n, SYMLINK_PREFIX)}

get_managed_symlinks(g, dir) ==
    IF ~is_game_path_valid(g) THEN {}
    ELSE {n \in DOMAIN dir :
            dir[n].kind = "symlink" /\ startswith(n, SYMLINK_PREFIX)}

\* clear_managed_symlinks with its return inside the loop: it stops after
\* the first symlink it removes
clear_managed_symlinks_ReturnsInLoop(g, dir, unlinkFail) ==
    IF ~is_game_path_valid(g) THEN [count |-> 0, dir |-> dir]
    ELSE LET candidates == get_managed_symlinks(g, dir) \ unlinkFail
             removed == IF candidates = {} THEN {}
                        ELSE {CHOOSE n \in candidates : TRUE}
         IN  [count |-> Cardinality(removed),
              dir |-> [n \in DOMAIN dir |->
                         IF n \in removed THEN Absent ELSE dir[n]]]

\* unlinkFail: the entries whose unlink() raises; the exception is printed
\* and the loop goes on
clear_managed_symlinks(g, dir, unlinkFail) ==
    IF ~is_game_path_valid(g) THEN [count |-> 0, dir |-> dir]
    ELSE LET removed == get_managed_symlinks(g, dir) \ unlinkFail
         IN  [count |-> Cardinality(removed),
              dir |-> [n \in DOMAIN dir |->
                         IF n \in removed THEN Absent ELSE dir[n]]]

Error(kind, name) == [kind |-> kind, name |-> name]

\* the loop body without the test that the source file exists
CreateSymlink_NoSourceCheck(acc, mod, lib, createFail) ==
    LET symlink_name == SymlinkName(mod.filename)
    IN  IF mod.filename \in createFail
        THEN [acc EXCEPT !.errors =
                 Append(@, Error("CreateFailed", mod.filename))]
        ELSE IF acc.dir[symlink_name].kind # "absent"
        THEN [acc EXCEPT !.errors =
                 Append(@, Error("AlreadyExists", symlink_name))]
        ELSE [acc EXCEPT !.dir[symlink_name] = Symlink(mod.path),
                         !.count = @ + 1,
                         !.created = @ \cup {mod.filename}]

\* the loop body with a symlink call that replaces whatever has the name
CreateSymlink_Overwrites(acc, mod, lib, createFail) ==
    LET symlink_name == SymlinkName(mod.filename)
    IN  IF ~PathExists(mod.path, lib)
        THEN [acc EXCEPT !.errors =
                 Append(@, Error("MissingSource", mod.filename))]
        ELSE IF mod.filename \in createFail
        THEN [acc EXCEPT !.errors =
                 Append(@, Error("CreateFailed", mod.filename))]
        ELSE [acc EXCEPT !.dir[symlink_name] = Symlink(mod.path),
                         !.count = @ + 1,
                         !.created = @ \cup {mod.filename}]

\* one iteration of the loop over the enabled mods; createFail: the file
\* names for which os.symlink raises something other than FileExistsError
CreateSymlink(acc, mod, lib, createFail) ==
    LET symlink_name == SymlinkName(mod.filename)
    IN  IF ~PathExists(mod.path, lib)
        THEN [acc EXCEPT !.errors =
                 Append(@, Error("MissingSource", mod.filename))]
        ELSE IF mod.filename \in createFail
        THEN [acc EXCEPT !.errors =
                 Append(@, Error("CreateFailed", mod.filename))]
        ELSE IF acc.dir[symlink_name].kind # "absent"
        THEN [acc EXCEPT !.errors =
                 Append(@, Error("AlreadyExists", symlink_name))]
        ELSE [acc EXCEPT !.dir[symlink_name] = Symlink(mod.path),
                         !.count = @ + 1,
                         !.created = @ \cup {mod.filename}]

RECURSIVE CreateSymlinks(_, _, _, _)
CreateSymlinks(acc, mods, lib, createFail) ==
    IF mods = <<>> THEN acc
    ELSE CreateSymlinks(CreateSymlink(acc, Head(mods), lib, createFail),
                        Tail(mods), lib, createFail)

\* activate_instance without the test of the game directory
activate_instance_NoValidityCheck(g, dir, lib, instance, unlinkFail, createFail) ==
    LET cleared == clear_managed_symlinks(g, dir, unlinkFail)
    IN  CreateSymlinks([count |-> 0, errors |-> <<>>,
                        dir |-> cleared.dir, created |-> {}],
                       get_enabled_mods(instance.mods), lib, createFail)

\* activate_instance that undoes its symlinks when a mod fails
activate_instance_RollsBack(g, dir, lib, instance, unlinkFail, createFail) ==
    IF ~is_game_path_valid(g)
    THEN [count |-> 0, errors |-> <<Error("GameDirNotFound", <<>>)>>,
          dir |-> dir, created |-> {}]
    ELSE LET cleared == clear_managed_symlinks(g, dir, unlinkFail)
             r == CreateSymlinks([count |-> 0, errors |-> <<>>,
                                  dir |-> cleared.dir, created |-> {}],
                                 get_enabled_mods(instance.mods), lib, createFail)
         IN  IF r.errors = <<>> THEN r
             ELSE [count |-> 0, errors |-> r.errors,
                   dir |-> cleared.dir, created |-> {}]

\* activate_instance over every mod of the instance, enabled or not
activate_instance_AllMods(g, dir, lib, instance, unlinkFail, createFail) ==
    IF ~is_game_path_valid(g)
    THEN [count |-> 0, errors |-> <<Error("GameDirNotFound", <<>>)>>,
          dir |-> dir, created |-> {}]
    ELSE LET cleared == clear_managed_symlinks(g, dir, unlinkFail)
         IN  CreateSymlinks([count |-> 0, errors |-> <<>>,
                             dir |-> cleared.dir, created |-> {}],
                            instance.mods, lib, createFail)

\* returns the count and the errors, with the directory as it leaves it;
\* created is the set of file names it made a symlink for
activate_instance(g, dir, lib, instance, unlinkFail, createFail) ==
    IF ~is_game_path_valid(g)
    THEN [count |-> 0, errors |-> <<Error("GameDirNotFound", <<>>)>>,
          dir |-> dir, created |-> {}]
    ELSE LET cleared == clear_managed_symlinks(g, dir, unlinkFail)
         IN  CreateSymlinks([count |-> 0, errors |-> <<>>,
                             dir |-> cleared.dir, created |-> {}],
                            get_enabled_mods(instance.mods), lib, createFail)

deactivate_all(g, dir, unlinkFail) == clear_managed_symlinks(g, dir, unlinkFail)

IsMissing(m, lib) == ~PathExists(m.path, lib)

\* verify_mods that looks at the enabled mods only
verify_mods_EnabledOnly(mods, lib) ==
    LET missing == SelectSeq(get_enabled_mods(mods), LAMBDA m : IsMissing(m, lib))
    IN  [i \in 1..Len(missing) |-> missing[i].filename]

\* the file names of the mods whose path does not exist, in instance order
verify_mods(mods, lib) ==
    LET missing == SelectSeq(mods, LAMBDA m : IsMissing(m, lib))
    IN  [i \in 1..Len(missing) |-> missing[i].filename]

----------------------------------------------------------------------------
(* Front end: main.py, with the guards of the widgets that emit the requests *)

Done(op, name) ==
    [op |-> op, name |-> name, done |-> TRUE, count |-> 0, errors |-> <<>>,
     created |-> {}, unremoved |-> {}, added |-> 0, skipped |-> 0,
     follows |-> "other", missing |-> <<>>, removed |-> {}]

Rejected(op, name) == [Done(op, name) EXCEPT !.done = FALSE]

Tick == steps < MaxSteps /\ steps' = steps + 1

\* sequences of distinct elements of S of length 1..MaxBatch
RECURSIVE DistinctSeqs(_, _)
DistinctSeqs(S, k) ==
    IF k = 0 THEN {<<>>}
    ELSE LET shorter == DistinctSeqs(S, k - 1)
         IN  shorter \cup
             {Append(q, x) : q \in {r \in shorter : Len(r) = k - 1}, x \in S}

Batches(S) ==
    {q \in DistinctSeqs(S, MaxBatch) :
        /\ q # <<>>
        /\ \A i, j \in 1..Len(q) : i # j => q[i] # q[j]}

FilenamesOf(mods) == {mods[i].filename : i \in 1..Len(mods)}

\* create_instance, requested by InstanceListWidget._on_create_instance
CreateInstance(n) ==
    /\ Tick
    /\ UNCHANGED <<resolverVars, storeVars, conflictVars, running>>
    /\ n \notin list_instances(instances)
    /\ instances' = save_instance(instances, Instance(n))
    /\ current_instance' = load_instance(instances', n)
    /\ last' = Done("create_instance", n)
    /\ UNCHANGED <<state, state_file, library, game_mods_dir, gameDir>>

\* _on_instance_selected -> _load_instance
OnInstanceSelected(n) ==
    /\ Tick
    /\ UNCHANGED <<resolverVars, storeVars, conflictVars, running>>
    /\ n \in list_instances(instances)
    /\ current_instance' = load_instance(instances, n)
    /\ last' = [Done("select_instance", n) EXCEPT
                   !.missing = verify_mods(current_instance'.mods, library)]
    /\ UNCHANGED <<instances, state, state_file, library, game_mods_dir, gameDir>>

\* the loop of _on_mod_toggled: the first entry with that file name
SetEnabled(mods, f, enabled) ==
    IF ~HasFilename(mods, f) THEN mods
    ELSE LET i == CHOOSE k \in 1..Len(mods) :
                      /\ mods[k].filename = f
                      /\ \A j \in 1..(k - 1) : mods[j].filename # f
         IN  [mods EXCEPT ![i].enabled = enabled]

OnModToggled(f, enabled) ==
    /\ Tick
    /\ UNCHANGED <<resolverVars, storeVars, conflictVars, running>>
    /\ current_instance # NoInstance
    /\ f \in FilenamesOf(current_instance.mods)
    /\ current_instance' =
          [current_instance EXCEPT !.mods = SetEnabled(@, f, enabled)]
    /\ instances' = save_instance(instances, current_instance')
    /\ last' = Done("toggle_mod", current_instance.name)
    /\ UNCHANGED <<state, state_file, library, game_mods_dir, gameDir>>

\* one iteration of add_mods_to_instance for a package file named f
AddOne(acc, f) ==
    LET imp == import_mod(acc.lib, f)
        res == add_mod(acc.mods, Mod(f))
    IN  IF ~imp.imported /\ f \notin FilenamesOf(list_library_mods(imp.lib))
        THEN [acc EXCEPT !.failed = @ + 1]
        ELSE [lib |-> imp.lib, mods |-> res.mods,
              added |-> acc.added + (IF res.ok THEN 1 ELSE 0),
              skipped |-> acc.skipped + (IF res.ok THEN 0 ELSE 1),
              failed |-> acc.failed]

RECURSIVE AddAll(_, _)
AddAll(acc, paths) ==
    IF paths = <<>> THEN acc
    ELSE AddAll(AddOne(acc, Head(paths)), Tail(paths))

AddModsToInstance(paths) ==
    /\ Tick
    /\ UNCHANGED <<resolverVars, storeVars, conflictVars, running>>
    /\ current_instance # NoInstance
    /\ LET r == AddAll([lib |-> library, mods |-> current_instance.mods,
                        added |-> 0, skipped |-> 0, failed |-> 0], paths)
       IN  /\ library' = r.lib
           /\ current_instance' = [current_instance EXCEPT !.mods = r.mods]
           /\ instances' = save_instance(instances, current_instance')
           /\ last' = [Done("add_mods", current_instance.name) EXCEPT
                          !.added = r.added, !.skipped = r.skipped]
    /\ UNCHANGED <<state, state_file, game_mods_dir, gameDir>>

RECURSIVE RemoveAll(_, _)
RemoveAll(mods, fs) ==
    IF fs = <<>> THEN mods
    ELSE RemoveAll(remove_mod(mods, Head(fs)), Tail(fs))

\* main.py remove_mods_from_instance, the slot of remove_mods_requested.
\* ModListWidget._on_remove_mod asks for confirmation and never emits that
\* signal, so the handler is modelled as called directly.
RemoveModsFromInstance(fs) ==
    /\ Tick
    /\ UNCHANGED <<resolverVars, storeVars, conflictVars, running>>
    /\ current_instance # NoInstance
    /\ current_instance' = [current_instance EXCEPT !.mods = RemoveAll(@, fs)]
    /\ instances' = save_instance(instances, current_instance')
    /\ last' = [Done("remove_mods", current_instance.name) EXCEPT
                   !.removed = {fs[i] : i \in 1..Len(fs)},
                   !.count = Len(current_instance.mods) - Len(current_instance'.mods)]
    /\ UNCHANGED <<state, state_file, library, game_mods_dir, gameDir>>

RECURSIVE ScanAll(_, _)
ScanAll(acc, mods) ==
    IF mods = <<>> THEN acc
    ELSE LET res == add_mod(acc.mods, Head(mods))
         IN  ScanAll([mods |-> res.mods,
                      added |-> acc.added + (IF res.ok THEN 1 ELSE 0),
                      skipped |-> acc.skipped + (IF res.ok THEN 0 ELSE 1)],
                     Tail(mods))

ScanAndAddLibraryMods ==
    /\ Tick
    /\ UNCHANGED <<resolverVars, storeVars, conflictVars, running>>
    /\ current_instance # NoInstance
    /\ LET library_mods == list_library_mods(library)
           r == ScanAll([mods |-> current_instance.mods,
                         added |-> 0, skipped |-> 0], library_mods)
       IN  IF library_mods = <<>>
           THEN /\ last' = Rejected("scan_library", current_instance.name)
                /\ UNCHANGED <<current_instance, instances>>
           ELSE /\ current_instance' = [current_instance EXCEPT !.mods = r.mods]
                /\ instances' = IF r.added > 0
                                THEN save_instance(instances, current_instance')
                                ELSE instances
                /\ last' = [Done("scan_library", current_instance.name) EXCEPT
                               !.added = r.added, !.skipped = r.skipped]
    /\ UNCHANGED <<state, state_file, library, game_mods_dir, gameDir>>

\* delete_instance without the test for the active instance
DeleteInstance_NoActiveCheck(n) ==
    /\ Tick
    /\ UNCHANGED <<resolverVars, storeVars, conflictVars, running>>
    /\ n \in list_instances(instances)
    /\ instances' = delete_instance(instances, n)
    /\ current_instance' = NoInstance
    /\ last' = Done("delete_instance", n)
    /\ UNCHANGED <<state, state_file, library, game_mods_dir, gameDir>>

\* MainWindow.delete_instance, requested by _on_delete_instance for the
\* selected item of the list
DeleteInstance(n) ==
    /\ Tick
    /\ UNCHANGED <<resolverVars, storeVars, conflictVars, running>>
    /\ n \in list_instances(instances)
    /\ IF state.active_instance = n
       THEN /\ last' = Rejected("delete_instance", n)
            /\ UNCHANGED <<instances, current_instance>>
       ELSE /\ instances' = delete_instance(instances, n)
            /\ current_instance' = NoInstance
            /\ last' = Done("delete_instance", n)
    /\ UNCHANGED <<state, state_file, library, game_mods_dir, gameDir>>

\* _on_instance_activated, requested by _on_activate for the selected item
OnInstanceActivated(n) ==
    /\ Tick
    /\ UNCHANGED <<resolverVars, storeVars, conflictVars, running>>
    /\ n \in list_instances(instances)
    /\ IF ~is_game_path_valid(game_mods_dir)
       THEN /\ last' = Rejected("activate", n)
            /\ UNCHANGED <<state, state_file, gameDir>>
       ELSE LET instance == load_instance(instances, n)
            IN  IF instance = NoInstance
                THEN /\ last' = Rejected("activate", n)
                     /\ UNCHANGED <<state, state_file, gameDir>>
                ELSE \E unlinkFail \in SUBSET get_managed_symlinks(game_mods_dir, gameDir),
                        createFail \in SUBSET FilenamesOf(get_enabled_mods(instance.mods)) :
                        LET r == activate_instance(game_mods_dir, gameDir, library,
                                                   instance, unlinkFail, createFail)
                        IN  /\ gameDir' = r.dir
                            /\ state' = [state EXCEPT !.active_instance = n]
                            /\ state_file' = save_state(state')
                            /\ last' = [Done("activate", n) EXCEPT
                                           !.count = r.count,
                                           !.errors = r.errors,
                                           !.created = r.created,
                                           !.unremoved = unlinkFail,
                                           !.follows =
                                               IF /\ last.op = "activate"
                                                  /\ last.done
                                                  /\ last.name = n
                                               THEN "same_activate"
                                               ELSE "other"]
    /\ UNCHANGED <<instances, current_instance, library, game_mods_dir>>

\* _on_instance_deactivated without the update of the state
OnInstanceDeactivated_KeepsState ==
    /\ Tick
    /\ UNCHANGED <<resolverVars, storeVars, conflictVars, running>>
    /\ IF ~is_game_path_valid(game_mods_dir)
       THEN /\ last' = Rejected("deactivate", None)
            /\ UNCHANGED gameDir
       ELSE \E unlinkFail \in SUBSET get_managed_symlinks(game_mods_dir, gameDir) :
                LET r == deactivate_all(game_mods_dir, gameDir, unlinkFail)
                IN  /\ gameDir' = r.dir
                    /\ last' = [Done("deactivate", None) EXCEPT
                                   !.count = r.count,
                                   !.unremoved = unlinkFail,
                                   !.follows =
                                       IF last.op = "activate" /\ last.done
                                       THEN "activate"
                                       ELSE "other"]
    /\ UNCHANGED <<instances, current_instance, library, game_mods_dir,
                   state, state_file>>

\* _on_instance_deactivated
OnInstanceDeactivated ==
    /\ Tick
    /\ UNCHANGED <<resolverVars, storeVars, conflictVars, running>>
    /\ IF ~is_game_path_valid(game_mods_dir)
       THEN /\ last' = Rejected("deactivate", None)
            /\ UNCHANGED <<state, state_file, gameDir>>
       ELSE \E unlinkFail \in SUBSET get_managed_symlinks(game_mods_dir, gameDir) :
                LET r == deactivate_all(game_mods_dir, gameDir, unlinkFail)
                IN  /\ gameDir' = r.dir
                    /\ state' = [state EXCEPT !.active_instance = None]
                    /\ state_file' = save_state(state')
                    /\ last' = [Done("deactivate", None) EXCEPT
                                   !.count = r.count,
                                   !.unremoved = unlinkFail,
                                   !.follows =
                                       IF last.op = "activate" /\ last.done
                                       THEN "activate"
                                       ELSE "other"]
    /\ UNCHANGED <<instances, current_instance, library, game_mods_dir>>

\* the user deletes a package file from the library folder
DeleteLibraryFile(f) ==
    /\ Tick
    /\ UNCHANGED <<resolverVars, storeVars, conflictVars, running>>
    /\ f \in library
    /\ library' = library \ {f}
    /\ last' = Done("delete_library_file", None)
    /\ UNCHANGED <<instances, current_instance, state, state_file,
                   game_mods_dir, gameDir>>

----------------------------------------------------------------------------
(* The other components before they run *)

\* ModManager.__init__ before _detect_game_path: no directory, no message;
\* probes lists the existence tests and directory creations made so far
NotResolved ==
    [done |-> FALSE, game_mods_dir |-> NoPath, root |-> 0,
     error_message |-> None, checked |-> 0, probes |-> <<>>]

ResolverIdle == libraries = <<>> /\ resolution = NotResolved

\* no handler is running: links, the managed symlinks still to unlink; mods,
\* the enabled mods still to link
NoRequest ==
    [op |-> None, name |-> None, at |-> "idle", links |-> {}, mods |-> <<>>,
     removed |-> 0, count |-> 0, errors |-> <<>>, unremoved |-> {},
     created |-> {}]

NoCall == [op |-> None]

StoreIdle == data_dir = None /\ returned = NoCall

ConflictsIdle == candidate = NoInstance /\ warnings = <<>>

----------------------------------------------------------------------------
(* Initial states: a fresh data directory; the game directory holds entries *)
(* that are not the manager's, some of them under a managed name            *)

BaseDir ==
    [n \in GameDirNames |->
        IF n = OtherName THEN RegularFile
        ELSE IF n = LinkName THEN Symlink(Elsewhere)
        ELSE Absent]

InitGameDirs ==
    {BaseDir,
     [BaseDir EXCEPT ![SymlinkName(Pak("a"))] = RegularFile],
     [BaseDir EXCEPT ![SymlinkName(Pak("b"))] = Directory]}

Init ==
    /\ instances = [n \in InstanceNames |-> NoInstance]
    /\ current_instance = NoInstance
    /\ state = AppState
    /\ state_file = NoStateFile
    /\ library = {}
    /\ \/ game_mods_dir = PaksPath /\ gameDir \in InitGameDirs
       \/ game_mods_dir = NoPath /\ gameDir = BaseDir
    /\ last = Done("init", None)
    /\ steps = 0
    /\ running = NoRequest
    /\ ResolverIdle
    /\ StoreIdle
    /\ ConflictsIdle

Next ==
    \/ \E n \in InstanceNames : CreateInstance(n)
    \/ \E n \in InstanceNames : OnInstanceSelected(n)
    \/ \E f \in Filenames, enabled \in BOOLEAN : OnModToggled(f, enabled)
    \/ \E paths \in Batches(Filenames) : AddModsToInstance(paths)
    \/ \E fs \in Batches(Filenames) : RemoveModsFromInstance(fs)
    \/ ScanAndAddLibraryMods
    \/ \E n \in InstanceNames : DeleteInstance(n)
    \/ \E n \in InstanceNames : OnInstanceActivated(n)
    \/ OnInstanceDeactivated
    \/ \E f \in Filenames : DeleteLibraryFile(f)

Spec == Init /\ [][Next]_vars

----------------------------------------------------------------------------
(* Vocabulary of the properties *)

\* the managed symlinks of a directory: symlinks under the reserved prefix
ManagedSymlinks(dir) ==
    {n \in DOMAIN dir : dir[n].kind = "symlink" /\ startswith(n, SYMLINK_PREFIX)}

\* the managed symlinks with their targets
ManagedLinks(dir) == {<<n, dir[n].target>> : n \in ManagedSymlinks(dir)}

EnabledOf(inst) == get_enabled_mods(inst.mods)

\* prefix + filename -> path, for the enabled mods of an instance
LinksOf(inst) ==
    {<<SymlinkName(EnabledOf(inst)[i].filename), EnabledOf(inst)[i].path>> :
        i \in 1..Len(EnabledOf(inst))}

\* the same, for the enabled mods whose source file exists
LinksOfExisting(inst, lib) ==
    {<<SymlinkName(EnabledOf(inst)[i].filename), EnabledOf(inst)[i].path>> :
        i \in {k \in 1..Len(EnabledOf(inst)) :
                  PathExists(EnabledOf(inst)[k].path, lib)}}

ErrorKinds(errors) == {errors[k].kind : k \in 1..Len(errors)}

ErrorNames(errors) == {errors[k].name : k \in 1..Len(errors)}

\* the state right after an activate request that ran the engine
Activated == last.op = "activate" /\ last.done

Deactivated == last.op = "deactivate" /\ last.done

ActivatedInstance == instances[last.name]

----------------------------------------------------------------------------
(* C1 *)

\* C1: when activate(I) completes with an empty error list, the managed
\* symlinks of the game directory are exactly prefix + filename -> path for
\* the enabled mods of I, whatever the directory held before.
C1_ExactOnEmptyErrors ==
    (Activated /\ last.errors = <<>>) =>
        ManagedLinks(gameDir) = LinksOf(ActivatedInstance)

----------------------------------------------------------------------------
(* C2 *)

----------------------------------------------------------------------------
(* C3 *)

----------------------------------------------------------------------------
(* C4 *)

----------------------------------------------------------------------------
(* C5 *)

\* C5: a delete request for the active instance leaves that instance's
\* persisted document in place and active_instance unchanged.
C5_ActiveInstanceNotDeleted ==
    [][(last'.op = "delete_instance" /\ steps' # steps
          /\ last'.name = state.active_instance)
        => /\ instances[last'.name] # NoInstance
           /\ instances'[last'.name] = instances[last'.name]
           /\ state' = state
           /\ state_file' = state_file]_vars

\* a delete request for the active instance was turned down
C5_Witness ==
    /\ last.op = "delete_instance"
    /\ ~last.done
    /\ last.name = state.active_instance
    /\ instances[last.name] # NoInstance

----------------------------------------------------------------------------
(* C6 *)

GameDirUnavailable ==
    [count |-> 0, errors |-> <<Error("GameDirNotFound", <<>>)>>]

\* C6: while the game directory is not resolved, activate(I) returns count 0
\* and the single game-directory error and leaves the directory as it is,
\* for every persisted instance and whatever the file system would let it
\* do; an activate request leaves AppState, state.json and the directory
\* unchanged.
C6_UnavailableGameDirectory ==
    [][~is_game_path_valid(game_mods_dir) =>
         /\ \A n \in list_instances(instances) :
              \A unlinkFail \in SUBSET GameDirNames, createFail \in SUBSET Filenames :
                 LET r == activate_instance(game_mods_dir, gameDir, library,
                                            instances[n], unlinkFail, createFail)
                 IN  /\ [count |-> r.count, errors |-> r.errors] = GameDirUnavailable
                     /\ r.dir = gameDir
         /\ (last'.op = "activate" /\ steps' # steps)
              => /\ state' = state
                 /\ state_file' = state_file
                 /\ gameDir' = gameDir
                 /\ ~last'.done]_vars

\* an activate request turned down for an instance that has a mod to link
C6_Witness ==
    /\ ~is_game_path_valid(game_mods_dir)
    /\ last.op = "activate"
    /\ ~last.done
    /\ LinksOfExisting(instances[last.name], library) # {}

----------------------------------------------------------------------------
(* C7 *)

ErrorCount(errors, e) == Cardinality({k \in 1..Len(errors) : errors[k] = e})

\* C7: activate records exactly one MissingSource error for every enabled
\* mod whose source file does not exist, makes no symlink for it and does
\* not count it, and still handles every other enabled mod; with such a mod
\* as the only enabled mod the result is count 0 and one error.
C7_MissingSource ==
    Activated =>
        LET en == EnabledOf(ActivatedInstance)
            missing == {k \in 1..Len(en) : ~PathExists(en[k].path, library)}
        IN  /\ \A k \in missing :
                  /\ ErrorCount(last.errors,
                                Error("MissingSource", en[k].filename)) = 1
                  /\ en[k].filename \notin last.created
                  /\ gameDir[SymlinkName(en[k].filename)].kind = "symlink"
                        => SymlinkName(en[k].filename) \in last.unremoved
            /\ last.count <= Len(en) - Cardinality(missing)
            /\ \A k \in (1..Len(en)) \ missing :
                  \/ gameDir[SymlinkName(en[k].filename)] = Symlink(en[k].path)
                  \/ en[k].filename \in ErrorNames(last.errors)
                  \/ SymlinkName(en[k].filename) \in ErrorNames(last.errors)
            /\ (Len(en) = 1 /\ missing # {})
                  => last.count = 0 /\ Len(last.errors) = 1

\* the first enabled mod has lost its source file, the second was linked
C7_Witness ==
    /\ Activated
    /\ Len(EnabledOf(ActivatedInstance)) = 2
    /\ ~PathExists(EnabledOf(ActivatedInstance)[1].path, library)
    /\ last.created = {EnabledOf(ActivatedInstance)[2].filename}

----------------------------------------------------------------------------
(* C8 *)

\* the enabled mods of the activated instance that no error names
WithoutError ==
    {f \in FilenamesOf(EnabledOf(ActivatedInstance)) :
        /\ f \notin ErrorNames(last.errors)
        /\ SymlinkName(f) \notin ErrorNames(last.errors)}

\* C8: when activate(I) records errors, the symlinks of the enabled mods it
\* records no error for are in the game directory when it returns, the
\* count is their number, and both AppState and state.json name I.
C8_NoRollback ==
    (Activated /\ last.errors # <<>>) =>
        /\ \A f \in WithoutError :
              gameDir[SymlinkName(f)] = Symlink(LibraryPath(f))
        /\ last.count = Cardinality(WithoutError)
        /\ state.active_instance = last.name
        /\ state_file = save_state(state)

\* one mod failed at creation and another one was linked
C8_Witness ==
    /\ Activated
    /\ "CreateFailed" \in ErrorKinds(last.errors)
    /\ last.count = 1
    /\ WithoutError # {}

----------------------------------------------------------------------------
(* C9 *)

IsManagedSymlink(dir, n) ==
    dir[n].kind = "symlink" /\ startswith(n, SYMLINK_PREFIX)

\* C9: an activate or deactivate request leaves every existing entry of the
\* game directory that is not a managed symlink as it was.
C9_ForeignEntriesUntouched ==
    [][(last'.op \in {"activate", "deactivate"} /\ steps' # steps) =>
         \A n \in GameDirNames :
            (gameDir[n].kind # "absent" /\ ~IsManagedSymlink(gameDir, n))
               => gameDir'[n] = gameDir[n]]_vars

\* a deactivate removed a managed symlink next to a regular file under the
\* prefix, a directory under the prefix or a symlink without the prefix
C9_Witness ==
    /\ Deactivated
    /\ last.count > 0
    /\ \E n \in GameDirNames :
          startswith(n, SYMLINK_PREFIX) /\ gameDir[n].kind \in {"file", "dir"}
    /\ gameDir[LinkName].kind = "symlink"

----------------------------------------------------------------------------
(* C10 *)

ModValues == {[Mod(f) EXCEPT !.enabled = e] : f \in Filenames, e \in BOOLEAN}

\* C10: for every instance held on disk or in memory and every mod whose
\* file name the instance already has, add_mod returns False and leaves the
\* mod list as it is; after add_mod of any mod, a second add_mod of the same
\* file name returns False and leaves the list as the first call left it.
C10_AddModIdempotent ==
    \A mods \in {instances[n].mods : n \in InstanceNames} \cup {current_instance.mods} :
       \A mod \in ModValues :
          /\ HasFilename(mods, mod.filename)
                => add_mod(mods, mod) = [ok |-> FALSE, mods |-> mods]
          /\ \A again \in {m \in ModValues : m.filename = mod.filename} :
                LET first == add_mod(mods, mod)
                    second == add_mod(first.mods, again)
                IN  /\ ~second.ok
                    /\ second.mods = first.mods
                    /\ Len(second.mods) = Len(first.mods)

\* an add request met a file name the instance already had, with that mod
\* disabled
C10_Witness ==
    /\ last.op = "add_mods"
    /\ last.skipped > 0
    /\ \E i \in 1..Len(current_instance.mods) : ~current_instance.mods[i].enabled

----------------------------------------------------------------------------
(* C11 *)

UniqueFilenames(mods) ==
    \A i, j \in 1..Len(mods) : i # j => mods[i].filename # mods[j].filename

\* C11: no two entries of the mod list of an instance, persisted or loaded,
\* have the same file name, after any sequence of add, remove, scan and
\* enable/disable requests on instances that were created empty.
C11_FilenamesUnique ==
    /\ \A n \in InstanceNames : UniqueFilenames(instances[n].mods)
    /\ UniqueFilenames(current_instance.mods)

\* one add request that met a file name already present and added another,
\* on an instance that holds a disabled mod
C11_Witness ==
    /\ last.op = "add_mods"
    /\ last.skipped = 1
    /\ last.added = 1
    /\ Len(current_instance.mods) = 2
    /\ ~current_instance.mods[1].enabled

----------------------------------------------------------------------------
(* C12 *)

\* the positions of the mods whose source path does not exist
MissingAt(mods, lib) == {k \in 1..Len(mods) : ~PathExists(mods[k].path, lib)}

\* r lists the file names at the positions of S, in increasing position
ListsInOrder(r, mods, S) ==
    /\ Len(r) = Cardinality(S)
    /\ \A k \in S : r[Cardinality({j \in S : j < k}) + 1] = mods[k].filename

VerifyModsExact(mods, lib) ==
    ListsInOrder(verify_mods(mods, lib), mods, MissingAt(mods, lib))

\* C12: for every instance, persisted or loaded, whichever instance is
\* active, verify_mods returns the file names of exactly the mods, enabled
\* or not, whose source path does not exist, in instance order; the request
\* that runs it (selecting an instance) reports that list and leaves the
\* instances, the library, the game directory and the state as they were.
C12_VerifyMods ==
    [][/\ \A n \in InstanceNames : VerifyModsExact(instances[n].mods, library)
       /\ \A n \in InstanceNames : VerifyModsExact(instances'[n].mods, library')
       /\ VerifyModsExact(current_instance'.mods, library')
       /\ (last'.op = "select_instance" /\ steps' # steps)
             => /\ ListsInOrder(last'.missing, instances[last'.name].mods,
                                MissingAt(instances[last'.name].mods, library))
                /\ UNCHANGED <<instances, library, gameDir, game_mods_dir,
                               state, state_file>>]_vars

\* an instance other than the active one was selected and has a mod whose
\* library file is gone
C12_Witness ==
    /\ last.op = "select_instance"
    /\ last.missing # <<>>
    /\ state.active_instance \notin {None, last.name}

----------------------------------------------------------------------------
(* Game path resolver: mod_manager.py *)

MaxRoots == 2

\* the front end and its files, left alone while another component runs
MainIdle ==
    /\ instances = [n \in InstanceNames |-> NoInstance]
    /\ current_instance = NoInstance
    /\ state = AppState
    /\ state_file = NoStateFile
    /\ library = {}
    /\ game_mods_dir = NoPath
    /\ gameDir = BaseDir
    /\ last = Done("init", None)
    /\ steps = 0
    /\ running = NoRequest

\* one steamapps directory: which of the paths the resolver tests exist.
\* Saved/Paks lies under AppData/Local, which lies under the prefix
SteamappsDirs ==
    {r \in [manifest : BOOLEAN, game_dir : BOOLEAN, compatdata_pfx : BOOLEAN,
            appdata_local : BOOLEAN, mods_path : BOOLEAN] :
        /\ r.mods_path => r.appdata_local
        /\ r.appdata_local => r.compatdata_pfx}

Validated(path, error, probes, steamapps) ==
    [path |-> path, error |-> error, probes |-> probes, steamapps |-> steamapps]

\* _validate_and_create_mod_directory that treats missing game files like a
\* missing manifest
validate_and_create_mod_directory_FilesMissingKeepsSearching(steamapps, mkdirFails) ==
    IF ~steamapps.manifest
    THEN Validated(NoPath, None, <<"manifest">>, steamapps)
    ELSE IF ~steamapps.game_dir
    THEN Validated(NoPath, None, <<"manifest", "game_dir">>, steamapps)
    ELSE IF ~steamapps.compatdata_pfx
    THEN Validated(NoPath, "PrefixMissing",
                   <<"manifest", "game_dir", "compatdata_pfx">>, steamapps)
    ELSE IF steamapps.mods_path
    THEN Validated(PaksPath, None,
                   <<"manifest", "game_dir", "compatdata_pfx", "mods_path">>,
                   steamapps)
    ELSE IF ~steamapps.appdata_local
    THEN Validated(NoPath, "PrefixIncomplete",
                   <<"manifest", "game_dir", "compatdata_pfx", "mods_path",
                     "appdata_local">>, steamapps)
    ELSE IF mkdirFails
    THEN Validated(NoPath, "DirectoryCreateFailed",
                   <<"manifest", "game_dir", "compatdata_pfx", "mods_path",
                     "appdata_local", "mkdir">>, steamapps)
    ELSE Validated(PaksPath, None,
                   <<"manifest", "game_dir", "compatdata_pfx", "mods_path",
                     "appdata_local", "mkdir">>,
                   [steamapps EXCEPT !.mods_path = TRUE])

\* _validate_and_create_mod_directory that tests AppData/Local before the
\* mod directory
validate_and_create_mod_directory_ParentFirst(steamapps, mkdirFails) ==
    IF ~steamapps.manifest
    THEN Validated(NoPath, None, <<"manifest">>, steamapps)
    ELSE IF ~steamapps.game_dir
    THEN Validated(NoPath, "GameFilesMissing", <<"manifest", "game_dir">>, steamapps)
    ELSE IF ~steamapps.compatdata_pfx
    THEN Validated(NoPath, "PrefixMissing",
                   <<"manifest", "game_dir", "compatdata_pfx">>, steamapps)
    ELSE IF ~steamapps.appdata_local
    THEN Validated(NoPath, "PrefixIncomplete",
                   <<"manifest", "game_dir", "compatdata_pfx", "appdata_local">>,
                   steamapps)
    ELSE IF steamapps.mods_path
    THEN Validated(PaksPath, None,
                   <<"manifest", "game_dir", "compatdata_pfx", "appdata_local",
                     "mods_path">>, steamapps)
    ELSE IF mkdirFails
    THEN Validated(NoPath, "DirectoryCreateFailed",
                   <<"manifest", "game_dir", "compatdata_pfx", "appdata_local",
                     "mods_path", "mkdir">>, steamapps)
    ELSE Validated(PaksPath, None,
                   <<"manifest", "game_dir", "compatdata_pfx", "appdata_local",
                     "mods_path", "mkdir">>,
                   [steamapps EXCEPT !.mods_path = TRUE])

\* _validate_and_create_mod_directory without the test of AppData/Local:
\* mkdir(parents=True) makes the whole path
validate_and_create_mod_directory_CreatesParents(steamapps, mkdirFails) ==
    IF ~steamapps.manifest
    THEN Validated(NoPath, None, <<"manifest">>, steamapps)
    ELSE IF ~steamapps.game_dir
    THEN Validated(NoPath, "GameFilesMissing", <<"manifest", "game_dir">>, steamapps)
    ELSE IF ~steamapps.compatdata_pfx
    THEN Validated(NoPath, "PrefixMissing",
                   <<"manifest", "game_dir", "compatdata_pfx">>, steamapps)
    ELSE IF steamapps.mods_path
    THEN Validated(PaksPath, None,
                   <<"manifest", "game_dir", "compatdata_pfx", "mods_path">>,
                   steamapps)
    ELSE IF mkdirFails
    THEN Validated(NoPath, "DirectoryCreateFailed",
                   <<"manifest", "game_dir", "compatdata_pfx", "mods_path",
                     "mkdir">>, steamapps)
    ELSE Validated(PaksPath, None,
                   <<"manifest", "game_dir", "compatdata_pfx", "mods_path",
                     "mkdir">>,
                   [steamapps EXCEPT !.mods_path = TRUE, !.appdata_local = TRUE])

\* returns (path, error) with the existence tests it made, in order, and
\* the directory as it leaves it; mkdirFails: mods_path.mkdir raises
validate_and_create_mod_directory(steamapps, mkdirFails) ==
    IF ~steamapps.manifest
    THEN Validated(NoPath, None, <<"manifest">>, steamapps)
    ELSE IF ~steamapps.game_dir
    THEN Validated(NoPath, "GameFilesMissing", <<"manifest", "game_dir">>, steamapps)
    ELSE IF ~steamapps.compatdata_pfx
    THEN Validated(NoPath, "PrefixMissing",
                   <<"manifest", "game_dir", "compatdata_pfx">>, steamapps)
    ELSE IF steamapps.mods_path
    THEN Validated(PaksPath, None,
                   <<"manifest", "game_dir", "compatdata_pfx", "mods_path">>,
                   steamapps)
    ELSE IF ~steamapps.appdata_local
    THEN Validated(NoPath, "PrefixIncomplete",
                   <<"manifest", "game_dir", "compatdata_pfx", "mods_path",
                     "appdata_local">>, steamapps)
    ELSE IF mkdirFails
    THEN Validated(NoPath, "DirectoryCreateFailed",
                   <<"manifest", "game_dir", "compatdata_pfx", "mods_path",
                     "appdata_local", "mkdir">>, steamapps)
    ELSE Validated(PaksPath, None,
                   <<"manifest", "game_dir", "compatdata_pfx", "mods_path",
                     "appdata_local", "mkdir">>,
                   [steamapps EXCEPT !.mods_path = TRUE])

Resolved(path, root, error, checked, probes, libs) ==
    [resolution |-> [done |-> TRUE, game_mods_dir |-> path, root |-> root,
                     error_message |-> error, checked |-> checked,
                     probes |-> probes],
     libraries |-> libs]

\* the loop of _detect_game_path from library i on
RECURSIVE CheckLibraries(_, _, _, _)
CheckLibraries(libs, i, probes, mkdirFails) ==
    IF i > Len(libs)
    THEN Resolved(NoPath, 0, "GameNotInstalled", Len(libs), probes, libs)
    ELSE LET v == validate_and_create_mod_directory(libs[i], i \in mkdirFails)
             seen == probes \o [k \in 1..Len(v.probes) |-> <<i, v.probes[k]>>]
             after == [libs EXCEPT ![i] = v.steamapps]
         IN  IF v.path # NoPath
             THEN Resolved(v.path, i, None, 0, seen, after)
             ELSE IF v.error # None
             THEN Resolved(NoPath, 0, v.error, 0, seen, after)
             ELSE CheckLibraries(after, i + 1, seen, mkdirFails)

\* _detect_game_path without the test for an empty list of libraries
detect_game_path_NoEmptyTest(libs, mkdirFails) ==
    CheckLibraries(libs, 1, <<>>, mkdirFails)

\* _detect_game_path over the libraries _find_steam_libraries returned;
\* mkdirFails: the libraries in which creating Saved/Paks raises
detect_game_path(libs, mkdirFails) ==
    IF libs = <<>>
    THEN Resolved(NoPath, 0, "SteamNotFound", 0, <<>>, libs)
    ELSE CheckLibraries(libs, 1, <<>>, mkdirFails)

\* ModManager.__init__ -> _detect_game_path
DetectGamePath ==
    /\ ~resolution.done
    /\ \E mkdirFails \in SUBSET (1..Len(libraries)) :
          LET r == detect_game_path(libraries, mkdirFails)
          IN  /\ resolution' = r.resolution
              /\ libraries' = r.libraries
    /\ UNCHANGED <<mainVars, storeVars, conflictVars>>

LibrarySequences == UNION {[1..k -> SteamappsDirs] : k \in 0..MaxRoots}

InitResolver ==
    /\ libraries \in LibrarySequences
    /\ resolution = NotResolved
    /\ MainIdle
    /\ StoreIdle
    /\ ConflictsIdle

NextResolver == DetectGamePath

SpecResolver == InitResolver /\ [][NextResolver]_vars

----------------------------------------------------------------------------
(* C13 *)

\* the first library, in candidate order, that holds the manifest; 0 if none
FirstWithManifest(libs) ==
    IF \E i \in 1..Len(libs) : libs[i].manifest
    THEN CHOOSE i \in 1..Len(libs) :
            /\ libs[i].manifest
            /\ \A j \in 1..(i - 1) : ~libs[j].manifest
    ELSE 0

ProbedRoots == {resolution.probes[k][1] : k \in 1..Len(resolution.probes)}

\* C13: resolution examines no library after the first one that holds the
\* manifest; when that library lacks the game directory the result is
\* GameFilesMissing and no directory, whatever the later libraries hold.
C13_StopsAtFirstManifest ==
    (resolution.done /\ FirstWithManifest(libraries) # 0) =>
        LET first == FirstWithManifest(libraries)
        IN  /\ \A i \in ProbedRoots : i <= first
            /\ ~libraries[first].game_dir
                  => /\ resolution.error_message = "GameFilesMissing"
                     /\ resolution.game_mods_dir = NoPath
                     /\ resolution.root = 0

\* the first library has the manifest but no game files and the second one
\* holds a complete installation
C13_Witness ==
    /\ resolution.done
    /\ Len(libraries) = 2
    /\ libraries[1].manifest /\ ~libraries[1].game_dir
    /\ libraries[2].manifest /\ libraries[2].game_dir /\ libraries[2].mods_path
    /\ resolution.error_message = "GameFilesMissing"
    /\ ProbedRoots = {1}

----------------------------------------------------------------------------
(* C14 *)

\* C14: resolution fails with GameNotInstalled exactly when there is at
\* least one candidate library and none holds the manifest, and then reports
\* the number of candidate libraries; with no candidate library it fails with
\* SteamNotFound.
C14_GameNotInstalled ==
    resolution.done =>
        /\ resolution.error_message = "GameNotInstalled"
              <=> (libraries # <<>> /\ FirstWithManifest(libraries) = 0)
        /\ resolution.error_message = "GameNotInstalled"
              => /\ resolution.checked = Len(libraries)
                 /\ resolution.game_mods_dir = NoPath
        /\ libraries = <<>>
              => /\ resolution.error_message = "SteamNotFound"
                 /\ resolution.game_mods_dir = NoPath

\* two libraries without the manifest, one of them with game files and a
\* prefix left behind
C14_Witness ==
    /\ resolution.done
    /\ resolution.error_message = "GameNotInstalled"
    /\ resolution.checked = 2
    /\ libraries[2].game_dir /\ libraries[2].mods_path

----------------------------------------------------------------------------
(* Persistence store over the documents as they are on disk: models.py *)

\* names of the entries of the instances directory, as characters
DirNames == {<<"B">>, <<"a">>, <<"a", "b">>}

\* ord() of the characters that occur in those names
CodePoint(c) == CASE c = "B" -> 66 [] c = "a" -> 97 [] c = "b" -> 98

\* s < t on Python strings: by code point, a proper prefix first
RECURSIVE StrLess(_, _)
StrLess(s, t) ==
    IF t = <<>> THEN FALSE
    ELSE IF s = <<>> THEN TRUE
    ELSE IF Head(s) # Head(t) THEN CodePoint(Head(s)) < CodePoint(Head(t))
    ELSE StrLess(Tail(s), Tail(t))

\* sorted() of a set of distinct strings
RECURSIVE sorted(_)
sorted(S) ==
    IF S = {} THEN <<>>
    ELSE LET least == CHOOSE x \in S : \A y \in S \ {x} : StrLess(x, y)
         IN  <<least>> \o sorted(S \ {least})

\* a JSON value of state.json
JNull == [type |-> "null", v |-> None]

JStr(x) == [type |-> "string", v |-> x]

JNum == [type |-> "number", v |-> "5"]

\* the fields of AppState, and a key that is not one of them
AppStateFields == {"active_instance", "steam_path"}

StateKeys == AppStateFields \cup {"theme"}

\* state.json: whether it exists, whether its text is JSON, the type of the
\* value and, for an object, its keys and their values
StateFile(exists, parses, type, keys, val) ==
    [exists |-> exists, parses |-> parses, type |-> type, keys |-> keys,
     val |-> val]

NoValues == [k \in StateKeys |-> JNull]

MissingStateFile == StateFile(FALSE, FALSE, "none", {}, NoValues)

GarbageStateFile == StateFile(TRUE, FALSE, "none", {}, NoValues)

ArrayStateFile == StateFile(TRUE, TRUE, "array", {}, NoValues)

ObjectStateFiles ==
    {StateFile(TRUE, TRUE, "object", keys, val) :
        keys \in SUBSET StateKeys,
        val \in {w \in [StateKeys -> {JNull, JStr("A"), JNum}] :
                    /\ w["steam_path"] = JNull
                    /\ w["theme"] = JNull}}

StateFiles ==
    {MissingStateFile, GarbageStateFile, ArrayStateFile} \cup
    {f \in ObjectStateFiles : "active_instance" \notin f.keys
                                 => f.val["active_instance"] = JNull}

Loaded(raised, st) == [raised |-> raised, state |-> st]

\* json.load: raises on text that is not JSON
json_load(file) == [raised |-> ~file.parses, data |-> file]

\* AppState.from_dict: AppState(**data) raises unless data is a mapping
\* whose keys are fields of AppState; a missing field keeps its default and
\* a value is taken as it is, whatever its type
AppState_from_dict(data) ==
    IF data.type # "object" \/ ~(data.keys \subseteq AppStateFields)
    THEN Loaded(TRUE, AppState)
    ELSE Loaded(FALSE,
                [f \in AppStateFields |->
                    IF f \in data.keys THEN data.val[f].v ELSE AppState[f]])

\* load_state without the try block
load_state_NoTry(file) ==
    IF file.exists
    THEN LET j == json_load(file)
         IN  IF j.raised THEN Loaded(TRUE, AppState)
             ELSE AppState_from_dict(j.data)
    ELSE Loaded(FALSE, AppState)

\* load_state: an exception inside the try block is printed and the default
\* state returned
load_state(file) ==
    IF file.exists
    THEN LET j == json_load(file)
             r == AppState_from_dict(j.data)
         IN  IF j.raised \/ r.raised THEN Loaded(FALSE, AppState)
             ELSE Loaded(FALSE, r.state)
    ELSE Loaded(FALSE, AppState)

\* the keys of a mod entry of an instance document
ModFields == {"name", "filename", "path", "size", "enabled"}

ModEntry(keys, f, enabled) == [keys |-> keys, filename |-> f, enabled |-> enabled]

\* instance.json: whether it exists, whether its text is JSON, and for an
\* object its keys, its name and its mod entries
InstanceDoc(exists, parses, keys, name, mods) ==
    [exists |-> exists, parses |-> parses, keys |-> keys, name |-> name,
     mods |-> mods]

NoDoc == InstanceDoc(FALSE, FALSE, {}, <<>>, <<>>)

GarbageDoc == InstanceDoc(TRUE, FALSE, {}, <<>>, <<>>)

\* what save_instance writes for an instance with one disabled mod
SavedDoc(n) ==
    InstanceDoc(TRUE, TRUE, {"name", "mods", "created"}, n,
                <<ModEntry(ModFields, Pak("a"), FALSE)>>)

NamelessDoc(n) ==
    InstanceDoc(TRUE, TRUE, {"mods", "created"}, <<>>,
                <<ModEntry(ModFields, Pak("a"), TRUE)>>)

\* a mod entry that lacks its size
BadModDoc(n) ==
    InstanceDoc(TRUE, TRUE, {"name", "mods", "created"}, n,
                <<ModEntry(ModFields \ {"size"}, Pak("a"), TRUE)>>)

DirEntry(kind, doc) == [kind |-> kind, doc |-> doc]

\* what the instances directory can hold under the name n
DirEntries(n) ==
    {DirEntry("absent", NoDoc), DirEntry("file", NoDoc), DirEntry("dir", NoDoc),
     DirEntry("dir", GarbageDoc), DirEntry("dir", SavedDoc(n)),
     DirEntry("dir", NamelessDoc(n)), DirEntry("dir", BadModDoc(n))}

\* the None that load_instance returns, next to instances whose names are
\* characters
NotLoaded == [loaded |-> FALSE, name |-> <<>>, mods |-> <<>>]

\* Mod.from_dict: Mod(**data) raises on a missing or an unknown field
Mod_from_dict(e) ==
    IF (ModFields \ {"enabled"}) \subseteq e.keys /\ e.keys \subseteq ModFields
    THEN [raised |-> FALSE,
          mod |-> [Mod(e.filename) EXCEPT
                      !.enabled = IF "enabled" \in e.keys THEN e.enabled ELSE TRUE]]
    ELSE [raised |-> TRUE, mod |-> Mod(e.filename)]

\* Instance.from_dict: data['name'] raises when the key is missing
Instance_from_dict(data) ==
    LET entries == IF "mods" \in data.keys THEN data.mods ELSE <<>>
        mods == [i \in 1..Len(entries) |-> Mod_from_dict(entries[i])]
    IN  IF "name" \notin data.keys \/ \E i \in 1..Len(mods) : mods[i].raised
        THEN [raised |-> TRUE, instance |-> NotLoaded]
        ELSE [raised |-> FALSE,
              instance |-> [loaded |-> TRUE, name |-> data.name,
                            mods |-> [i \in 1..Len(mods) |-> mods[i].mod]]]

\* load_instance on the directory as it is: None when instance.json does not
\* exist under the name or when reading it raises
load_instance_in(dir, name) ==
    LET file == dir[name].doc
    IN  IF dir[name].kind # "dir" \/ ~file.exists THEN NotLoaded
        ELSE IF json_load(file).raised THEN NotLoaded
        ELSE LET r == Instance_from_dict(json_load(file).data)
             IN  IF r.raised THEN NotLoaded ELSE r.instance

\* list_instances on the directory as it is
list_instances_in(dir) ==
    sorted({n \in DOMAIN dir : dir[n].kind = "dir" /\ dir[n].doc.exists})

Call(op, arg) ==
    [op |-> op, arg |-> arg, raised |-> FALSE, state |-> AppState,
     names |-> <<>>, instance |-> NotLoaded]

LoadState ==
    /\ returned = NoCall
    /\ LET r == load_state(data_dir.state_file)
       IN  returned' = [Call("load_state", <<>>) EXCEPT
                           !.raised = r.raised, !.state = r.state]
    /\ UNCHANGED <<data_dir, mainVars, resolverVars, conflictVars>>

ListInstances ==
    /\ returned = NoCall
    /\ returned' = [Call("list_instances", <<>>) EXCEPT
                       !.names = list_instances_in(data_dir.instances)]
    /\ UNCHANGED <<data_dir, mainVars, resolverVars, conflictVars>>

LoadInstance(n) ==
    /\ returned = NoCall
    /\ returned' = [Call("load_instance", n) EXCEPT
                       !.instance = load_instance_in(data_dir.instances, n)]
    /\ UNCHANGED <<data_dir, mainVars, resolverVars, conflictVars>>

InitDocuments ==
    /\ \E file \in StateFiles :
          \E dir \in {d \in [DirNames -> UNION {DirEntries(n) : n \in DirNames}] :
                         \A n \in DirNames : d[n] \in DirEntries(n)} :
             data_dir = [state_file |-> file, instances |-> dir]
    /\ returned = NoCall
    /\ MainIdle
    /\ ResolverIdle
    /\ ConflictsIdle

NextDocuments ==
    \/ LoadState
    \/ ListInstances
    \/ \E n \in DirNames : LoadInstance(n)

SpecDocuments == InitDocuments /\ [][NextDocuments]_vars

----------------------------------------------------------------------------
(* C15 *)

Corrupt(file) == file.exists /\ ~file.parses

\* JSON that is not an object, or an object with a key AppState does not have
UnexpectedShape(file) ==
    /\ file.exists /\ file.parses
    /\ file.type # "object" \/ ~(file.keys \subseteq AppStateFields)

----------------------------------------------------------------------------
(* C16 *)

NamesOf(q) == {q[i] : i \in 1..Len(q)}

Ascending(q) == \A i, j \in 1..Len(q) : i < j => StrLess(q[i], q[j])

\* the directory under that name holds a document that loads
HoldsValidDocument(dir, n) ==
    /\ dir[n].kind = "dir"
    /\ dir[n].doc.exists /\ dir[n].doc.parses
    /\ "name" \in dir[n].doc.keys
    /\ \A i \in 1..Len(dir[n].doc.mods) :
          /\ (ModFields \ {"enabled"}) \subseteq dir[n].doc.mods[i].keys
          /\ dir[n].doc.mods[i].keys \subseteq ModFields

\* C16 as stated: list_instances returns, in ascending order by code point,
\* exactly the names of the directories that hold a valid instance
\* document, and load_instance returns an instance for each of them.
C16_ListsValidInstances ==
    returned.op = "list_instances" =>
        /\ NamesOf(returned.names) =
              {n \in DirNames : HoldsValidDocument(data_dir.instances, n)}
        /\ Ascending(returned.names)
        /\ \A n \in NamesOf(returned.names) :
              load_instance_in(data_dir.instances, n).loaded

----------------------------------------------------------------------------
(* Library and archive import over the files as they are on disk: models.py *)

MaxDepth == 3

\* names of package files, and of a file that is not one
PackageNames == Filenames \cup {Pak("c")}

NotesName == <<"n", ".", "t", "x", "t">>

\* contents of a library file: none, what the library held before, what an
\* imported file carries
NoFile == "none"

OldBytes == "old"

NewBytes == "new"

NoMod == [name |-> <<>>, filename |-> <<>>, path |-> <<>>, enabled |-> FALSE]

\* a path handed to import_mod
PakFile(name, exists) == [name |-> name, exists |-> exists, content |-> NewBytes]

\* the names of the files the library directory holds
Present(mods) == {f \in DOMAIN mods : mods[f] # NoFile}

\* import_mod on the library directory with the contents of its files:
\* the source must exist, the destination must not; copyFails: shutil.copy2
\* raises
import_mod_in(mods, pak_file, copyFails) ==
    IF ~pak_file.exists
    THEN [mod |-> NoMod, mods |-> mods, raised |-> FALSE]
    ELSE LET r == import_mod(Present(mods), pak_file.name)
         IN  IF ~r.imported
             THEN [mod |-> NoMod, mods |-> mods, raised |-> FALSE]
             ELSE IF copyFails
             THEN [mod |-> NoMod, mods |-> mods, raised |-> TRUE]
             ELSE [mod |-> Mod(pak_file.name),
                   mods |-> [mods EXCEPT ![pak_file.name] = pak_file.content],
                   raised |-> FALSE]

\* an extracted archive: a chain of nested directories, tree[d] the file in
\* the directory at depth d, if any
NoMember == <<>>

Trees == [1..MaxDepth -> PackageNames \cup {NotesName, NoMember}]

\* the package files met on the way down from depth d to depth deepest
RECURSIVE Walk(_, _, _)
Walk(tree, d, deepest) ==
    IF d > deepest THEN <<>>
    ELSE (IF IsPak(tree[d]) THEN <<PakFile(tree[d], TRUE)>> ELSE <<>>)
         \o Walk(tree, d + 1, deepest)

\* glob('*.pak'): the top directory only
rglob_TopLevelOnly(tree) == Walk(tree, 1, 1)

\* temp_path.rglob('*.pak'): every directory, top-down
rglob(tree) == Walk(tree, 1, Len(tree))

Suffixes == {".zip", ".ZIP", ".7z", ".rar", ".tar"}

\* archive_path.suffix.lower() on those suffixes
suffix_lower(x) == IF x = ".ZIP" THEN ".zip" ELSE x

Archive(exists, suffix, tree) == [exists |-> exists, suffix |-> suffix, tree |-> tree]

SampleTree == <<Pak("a")>> \o [d \in 1..(MaxDepth - 1) |-> NoMember]

Archives ==
    {Archive(TRUE, ".zip", t) : t \in Trees} \cup
    {Archive(e, x, SampleTree) : e \in BOOLEAN, x \in Suffixes}

\* the loop of import_archive over the extracted package files; an
\* exception of import_mod ends it
RECURSIVE ImportExtracted(_, _, _)
ImportExtracted(acc, paks, copyFail) ==
    IF paks = <<>> \/ acc.raised THEN acc
    ELSE LET r == import_mod_in(acc.dir, Head(paks), Head(paks).name \in copyFail)
         IN  ImportExtracted(
                 [dir |-> r.mods,
                  mods |-> IF r.mod # NoMod THEN Append(acc.mods, r.mod) ELSE acc.mods,
                  raised |-> r.raised],
                 Tail(paks), copyFail)

Imported(mods, error, dir) == [mods |-> mods, error |-> error, dir |-> dir]

\* import_archive: returns (imported mods, error) and leaves the library
\* directory as dir; extractFails: _extract_archive raises; copyFail: the
\* file names for which the copy into the library raises
import_archive(dir, archive, extractFails, copyFail) ==
    IF ~archive.exists THEN Imported(<<>>, "ArchiveNotFound", dir)
    ELSE IF suffix_lower(archive.suffix) \notin {".zip", ".7z", ".rar"}
    THEN Imported(<<>>, "UnsupportedFormat", dir)
    ELSE IF extractFails THEN Imported(<<>>, "ExtractionFailed", dir)
    ELSE LET extracted_paks == rglob(archive.tree)
             r == ImportExtracted([dir |-> dir, mods |-> <<>>, raised |-> FALSE],
                                  extracted_paks, copyFail)
         IN  IF extracted_paks = <<>>
             THEN Imported(<<>>, "NoPackagesFound", dir)
             ELSE IF r.raised THEN Imported(<<>>, "ImportFailed", r.dir)
             ELSE Imported(r.mods, None, r.dir)

LibraryCall(op, arg) ==
    [op |-> op, arg |-> arg, raised |-> FALSE, mod |-> NoMod, mods |-> <<>>,
     error |-> None, again |-> FALSE]

ImportMod(pak_file) ==
    /\ returned = NoCall
    /\ \E copyFails \in BOOLEAN :
          LET r == import_mod_in(data_dir.mods, pak_file, copyFails)
          IN  /\ data_dir' = [data_dir EXCEPT !.mods = r.mods]
              /\ returned' = [LibraryCall("import_mod", pak_file) EXCEPT
                                  !.raised = r.raised, !.mod = r.mod]
    /\ UNCHANGED <<mainVars, resolverVars, conflictVars>>

\* import_archive, on the library as drawn and once more for the same archive
ImportArchive(archive) ==
    /\ \/ returned = NoCall
       \/ /\ returned.op = "import_archive"
          /\ ~returned.again
          /\ returned.arg = archive
    /\ \E extractFails \in BOOLEAN,
          copyFail \in {{}} \cup {{f} : f \in PackageNames} :
          LET r == import_archive(data_dir.mods, archive, extractFails, copyFail)
          IN  /\ data_dir' = [data_dir EXCEPT !.mods = r.dir]
              /\ returned' = [LibraryCall("import_archive", archive) EXCEPT
                                  !.mods = r.mods, !.error = r.error,
                                  !.again = (returned # NoCall)]
    /\ UNCHANGED <<mainVars, resolverVars, conflictVars>>

InitLibrary ==
    /\ \E mods \in [PackageNames -> {NoFile, OldBytes}] : data_dir = [mods |-> mods]
    /\ returned = NoCall
    /\ MainIdle
    /\ ResolverIdle
    /\ ConflictsIdle

NextLibrary ==
    \/ \E name \in PackageNames \cup {NotesName}, exists \in BOOLEAN :
          ImportMod(PakFile(name, exists))
    \/ \E archive \in Archives : ImportArchive(archive)

SpecLibrary == InitLibrary /\ [][NextLibrary]_vars

----------------------------------------------------------------------------
(* C17 *)

\* C17: import_mod of an existing package file never overwrites.  When the
\* library holds a file of that name it returns no mod and leaves every
\* library file and its contents as they were; otherwise, when it returns,
\* the library has gained that one file, with the contents of the source,
\* and the mod returned carries the file name and the path of the library
\* file.
C17_ImportNeverOverwrites ==
    [][(/\ returned'.op = "import_mod"
        /\ returned'.arg.exists /\ IsPak(returned'.arg.name)
        /\ ~returned'.raised)
       => LET f == returned'.arg.name
          IN  IF data_dir.mods[f] # NoFile
              THEN /\ returned'.mod = NoMod
                   /\ data_dir' = data_dir
              ELSE /\ data_dir'.mods[f] = returned'.arg.content
                   /\ \A g \in PackageNames \ {f} :
                         data_dir'.mods[g] = data_dir.mods[g]
                   /\ returned'.mod.filename = f
                   /\ returned'.mod.path = LibraryPath(f)]_vars

\* a package file was turned down and the library file of that name still
\* has the bytes it had
C17_Witness ==
    /\ returned.op = "import_mod"
    /\ returned.arg.exists /\ IsPak(returned.arg.name)
    /\ returned.mod = NoMod
    /\ ~returned.raised
    /\ data_dir.mods[returned.arg.name] = OldBytes

----------------------------------------------------------------------------
(* C18 *)

\* the depths at which the archive holds a package file
PackageFilesIn(tree) == {d \in DOMAIN tree : IsPak(tree[d])}

PackageNamesIn(tree) == {tree[d] : d \in PackageFilesIn(tree)}

FirstImport == returned'.op = "import_archive" /\ ~returned'.again

SecondImport == returned'.op = "import_archive" /\ returned'.again

\* C18 as stated: an import that returns no error returns one mod for every
\* package file the archive holds at any depth, and the same archive
\* imported again right after returns no mod and leaves the library as it
\* was.
C18_OnePerPackageFile ==
    [][/\ (FirstImport /\ returned'.error = None)
            => Len(returned'.mods) = Cardinality(PackageFilesIn(returned'.arg.tree))
       /\ (SecondImport /\ returned.error = None)
            => /\ returned'.mods = <<>>
               /\ data_dir' = data_dir]_vars

\* C18 amended: after an import that returns no error the library holds a
\* file under the name of every package file the archive holds at any depth,
\* and the mods returned are one for each distinct name among them that the
\* library did not hold before, so as many as there are package files when
\* their names differ and are new to the library; the same archive imported
\* again right after an import that returned no error returns no mod and
\* leaves the library as it was.
C18_OnePerNewFilename ==
    [][/\ (FirstImport /\ returned'.error = None)
            => LET tree == returned'.arg.tree
                   new == PackageNamesIn(tree) \ Present(data_dir.mods)
               IN  /\ PackageNamesIn(tree) \subseteq Present(data_dir'.mods)
                   /\ FilenamesOf(returned'.mods) = new
                   /\ Len(returned'.mods) = Cardinality(new)
                   /\ \A f \in new : data_dir'.mods[f] = NewBytes
                   /\ \A f \in PackageNames \ new :
                         data_dir'.mods[f] = data_dir.mods[f]
                   /\ (/\ Cardinality(PackageNamesIn(tree)) =
                               Cardinality(PackageFilesIn(tree))
                       /\ PackageNamesIn(tree) \cap Present(data_dir.mods) = {})
                         => Len(returned'.mods) = Cardinality(PackageFilesIn(tree))
       /\ (SecondImport /\ returned.error = None)
            => /\ returned'.mods = <<>>
               /\ data_dir' = data_dir]_vars

\* three package files at three depths were imported, then the same archive
\* once more
C18_Witness ==
    /\ returned.op = "import_archive"
    /\ returned.again
    /\ returned.error = None
    /\ returned.mods = <<>>
    /\ Cardinality(PackageNamesIn(returned.arg.tree)) = 3
    /\ \A f \in PackageNames : data_dir.mods[f] = NewBytes

----------------------------------------------------------------------------
(* Conflict heuristics: ModManager.detect_conflicts, mod_manager.py *)

MaxMods == 3

UpperCase == <<"A", "B", "C", "D", "E", "F", "G", "H", "I", "J", "K", "L", "M", "N", "O", "P", "Q", "R", "S", "T", "U", "V", "W", "X", "Y", "Z">>

LowerCase == <<"a", "b", "c", "d", "e", "f", "g", "h", "i", "j", "k", "l", "m", "n", "o", "p", "q", "r", "s", "t", "u", "v", "w", "x", "y", "z">>

\* str.lower
str_lower(s) ==
    [i \in 1..Len(s) |->
        IF \E j \in 1..Len(UpperCase) : UpperCase[j] = s[i]
        THEN LowerCase[CHOOSE j \in 1..Len(UpperCase) : UpperCase[j] = s[i]]
        ELSE s[i]]

\* the positions at which sep occurs in s
Occurrences(s, sep) ==
    {i \in 1..(Len(s) - Len(sep) + 1) : SubSeq(s, i, i + Len(sep) - 1) = sep}

\* keyword in s
Contains(s, keyword) == Occurrences(s, keyword) # {}

\* s.split(sep)[0]
split_first(s, sep) ==
    IF Occurrences(s, sep) = {} THEN s
    ELSE LET i == CHOOSE i \in Occurrences(s, sep) :
                      \A j \in Occurrences(s, sep) : i <= j
         IN  SubSeq(s, 1, i - 1)

ai_keywords == {<<"a", "i">>, <<"s", "u", "s", "p", "e", "c", "t">>, <<"s", "w", "a", "t">>, <<"o", "f", "f", "i", "c", "e", "r">>}

\* display names of mods: the stems of their file names
DisplayNames == {<<"a", "i">>,
     <<"A", "I", "_", "V", "2">>,
     <<"m", "a", "p">>,
     <<"M", "a", "p", "-", "v", "1">>,
     <<"m", "a", "p", "_", "v", "2">>,
     <<"s", "w", "a", "t">>,
     <<"s", "w", "a", "t", "-", "v", "1", "_", "v", "2">>,
     <<"S", "u", "s", "p", "e", "c", "t">>}

\* the test of the first loop
IsAiMod(mod) == \E keyword \in ai_keywords : Contains(str_lower(mod.name), keyword)

names_of(mods) == [i \in 1..Len(mods) |-> mods[i].name]

\* the two warnings, by what they name
AiWarning(ai_mods) == [kind |-> "ai", mods |-> ai_mods]

SimilarWarning(first, second) == [kind |-> "similar", mods |-> <<first, second>>]

\* the base name with only the '_v' split
base_name_UnderscoreOnly(name) == split_first(str_lower(name), <<"_", "v">>)

\* mod.name.lower().split('_v')[0].split('-v')[0]
base_name(name) ==
    split_first(split_first(str_lower(name), <<"_", "v">>), <<"-", "v">>)

\* the second loop from mod i on; seen_names as a set of <<base, name>>
RECURSIVE similar_mods(_, _, _)
similar_mods(mods, i, seen_names) ==
    IF i > Len(mods) THEN <<>>
    ELSE LET base == base_name(mods[i].name)
         IN  IF \E e \in seen_names : e[1] = base
             THEN LET e == CHOOSE e \in seen_names : e[1] = base
                  IN  <<SimilarWarning(e[2], mods[i].name)>>
                      \o similar_mods(mods, i + 1, seen_names)
             ELSE similar_mods(mods, i + 1,
                               seen_names \cup {<<base, mods[i].name>>})

\* the warnings of both loops over a list of mods
conflicts_among(mods) ==
    LET ai_mods == names_of(SelectSeq(mods, IsAiMod))
    IN  (IF Len(ai_mods) > 1 THEN <<AiWarning(ai_mods)>> ELSE <<>>)
        \o similar_mods(mods, 1, {})

\* detect_conflicts over every mod, enabled or not
detect_conflicts_AllMods(instance) == conflicts_among(instance.mods)

detect_conflicts(instance) == conflicts_among(get_enabled_mods(instance.mods))

\* the instances handed to detect_conflicts: mods with distinct file names
ModLists ==
    {q \in UNION {[1..n -> DisplayNames \X BOOLEAN] : n \in 0..MaxMods} :
        \A i, j \in 1..Len(q) : i # j => q[i][1] # q[j][1]}

Candidates ==
    {[name |-> "A",
      mods |-> [i \in 1..Len(q) |->
                   [Mod(q[i][1] \o PakSuffix) EXCEPT !.enabled = q[i][2]]]] :
        q \in ModLists}

DetectConflicts ==
    /\ returned = NoCall
    /\ warnings' = detect_conflicts(candidate)
    /\ returned' = [op |-> "detect_conflicts"]
    /\ UNCHANGED <<candidate, data_dir, mainVars, resolverVars>>

InitConflicts ==
    /\ candidate \in Candidates
    /\ warnings = <<>>
    /\ StoreIdle
    /\ MainIdle
    /\ ResolverIdle

NextConflicts == DetectConflicts

SpecConflicts == InitConflicts /\ [][NextConflicts]_vars

----------------------------------------------------------------------------
(* C19 *)

Detected == returned.op = "detect_conflicts"

EnabledMods == SelectSeq(candidate.mods, LAMBDA m : m.enabled)

DisabledNames ==
    {candidate.mods[i].name : i \in {j \in 1..Len(candidate.mods) :
                                        ~candidate.mods[j].enabled}}

IsAiWarning(w) == w.kind = "ai"

IsSimilarWarning(w) == w.kind = "similar"

\* the lower-cased name has a keyword somewhere in it
NamesKeyword(m) ==
    LET s == str_lower(m.name)
    IN  \E i, j \in 1..Len(s) : SubSeq(s, i, j) \in ai_keywords

NamedIn(w) == {w.mods[i] : i \in 1..Len(w.mods)}

\* C19: detect_conflicts looks at the enabled mods only.  It gives at most
\* one keyword warning, gives it exactly when two or more enabled mods have
\* a keyword in their display name (case ignored), and that warning names
\* all of those mods, in order, and no other; no warning names a disabled
\* mod, and the warnings are those of the instance without its disabled mods.
C19_KeywordWarning ==
    Detected =>
        LET A == SelectSeq(warnings, IsAiWarning)
            K == SelectSeq(EnabledMods, NamesKeyword)
        IN  /\ Len(A) <= 1
            /\ (Len(A) = 1) <=> (Len(K) >= 2)
            /\ (Len(A) = 1) => A[1].mods = names_of(K)
            /\ \A i \in 1..Len(warnings) : NamedIn(warnings[i]) \cap DisabledNames = {}
            /\ warnings = detect_conflicts([candidate EXCEPT !.mods = EnabledMods])

\* two enabled mods and one disabled mod carry a keyword; the warning names
\* the two
C19_Witness ==
    /\ Detected
    /\ \E i \in 1..Len(candidate.mods) :
          ~candidate.mods[i].enabled /\ NamesKeyword(candidate.mods[i])
    /\ \E i \in 1..Len(warnings) :
          IsAiWarning(warnings[i]) /\ Len(warnings[i].mods) = 2

----------------------------------------------------------------------------
(* C20 *)

VersionMarkers == {<<"_", "v">>, <<"-", "v">>}

\* the display name case-folded and cut at the first version marker
NormalizedBase(name) ==
    LET s == str_lower(name)
        M == {i \in 1..(Len(s) - 1) : SubSeq(s, i, i + 1) \in VersionMarkers}
    IN  IF M = {} THEN s
        ELSE SubSeq(s, 1, (CHOOSE i \in M : \A j \in M : i <= j) - 1)

\* the enabled mods that have the base of an earlier enabled mod
Colliding ==
    {i \in 1..Len(EnabledMods) :
        \E j \in 1..(i - 1) :
            NormalizedBase(EnabledMods[j].name) = NormalizedBase(EnabledMods[i].name)}

\* the first enabled mod with the base of enabled mod i
Canonical(i) ==
    CHOOSE j \in 1..i :
        /\ NormalizedBase(EnabledMods[j].name) = NormalizedBase(EnabledMods[i].name)
        /\ \A k \in 1..(j - 1) :
              NormalizedBase(EnabledMods[k].name) # NormalizedBase(EnabledMods[i].name)

\* C20: the near-duplicate warnings are, in iteration order, one for each
\* enabled mod whose normalized base name equals that of an earlier enabled
\* mod; each names the first enabled mod with that base and then the mod
\* itself; their number is the number of enabled mods minus the number of
\* distinct normalized bases among them.
C20_NearDuplicates ==
    Detected =>
        LET S == SelectSeq(warnings, IsSimilarWarning)
            bases == {NormalizedBase(EnabledMods[i].name) : i \in 1..Len(EnabledMods)}
        IN  /\ Len(S) = Cardinality(Colliding)
            /\ \A k \in 1..Len(S) :
                  LET i == CHOOSE i \in Colliding :
                               Cardinality({j \in Colliding : j < i}) = k - 1
                  IN  S[k].mods = <<EnabledMods[Canonical(i)].name, EnabledMods[i].name>>
            /\ Len(S) = Len(EnabledMods) - Cardinality(bases)

\* three enabled mods with one base: two warnings, both naming the first
C20_Witness ==
    /\ Detected
    /\ Len(EnabledMods) = 3
    /\ LET S == SelectSeq(warnings, IsSimilarWarning)
       IN  /\ Len(S) = 2
           /\ S[1].mods[1] = EnabledMods[1].name
           /\ S[2].mods = <<EnabledMods[1].name, EnabledMods[3].name>>

----------------------------------------------------------------------------
(* C21 *)

\* C21: removing mods from the current instance takes exactly the entries
\* with those file names out of that instance, in memory and on disk, and
\* nothing else: the library holds the files it held, every other instance
\* has the mods and enabled flags it had, and the state and the game
\* directory are as they were.
C21_RemoveTouchesOneInstance ==
    [][(last'.op = "remove_mods" /\ steps' = steps + 1)
       => LET kept == SelectSeq(current_instance.mods,
                                LAMBDA m : m.filename \notin last'.removed)
          IN  /\ current_instance' = [current_instance EXCEPT !.mods = kept]
              /\ instances'[current_instance.name] = current_instance'
              /\ \A n \in InstanceNames \ {current_instance.name} :
                    instances'[n] = instances[n]
              /\ library' = library
              /\ gameDir' = gameDir
              /\ state' = state /\ state_file' = state_file]_vars

\* an entry was removed whose file is in the library and which another
\* instance lists too
C21_Witness ==
    /\ last.op = "remove_mods"
    /\ last.count >= 1
    /\ \E f \in last.removed :
          /\ f \in library
          /\ f \notin FilenamesOf(instances[last.name].mods)
          /\ \E n \in InstanceNames \ {last.name} :
                HasFilename(instances[n].mods, f)

----------------------------------------------------------------------------
(* The activate and deactivate requests step by step: every file system    *)
(* call of _on_instance_activated and _on_instance_deactivated is a step,  *)
(* and the process may stop between any two of them                        *)

MaxRequests == 3

\* an empty state.json, as open(state_file, 'w') leaves it before json.dump
\* has written; load_state reads it as the default state
TruncatedStateFile == [exists |-> TRUE, doc |-> AppState]

StartRequest == running = NoRequest /\ steps < MaxRequests /\ steps' = steps + 1

\* _on_instance_activated up to the call of activate_instance and the
\* listing of the managed symlinks in clear_managed_symlinks
BeginActivate(n) ==
    /\ StartRequest
    /\ n \in list_instances(instances)
    /\ IF ~is_game_path_valid(game_mods_dir)
       THEN /\ last' = Rejected("activate", n)
            /\ UNCHANGED running
       ELSE /\ running' =
                 [NoRequest EXCEPT
                     !.op = "activate", !.name = n, !.at = "engine",
                     !.links = get_managed_symlinks(game_mods_dir, gameDir),
                     !.mods = get_enabled_mods(load_instance(instances, n).mods)]
            /\ UNCHANGED last
    /\ UNCHANGED <<instances, current_instance, state, state_file, library,
                   game_mods_dir, gameDir, resolverVars, storeVars, conflictVars>>

\* _on_instance_deactivated up to the listing of the managed symlinks
BeginDeactivate ==
    /\ StartRequest
    /\ IF ~is_game_path_valid(game_mods_dir)
       THEN /\ last' = Rejected("deactivate", None)
            /\ UNCHANGED running
       ELSE /\ running' =
                 [NoRequest EXCEPT
                     !.op = "deactivate", !.at = "engine",
                     !.links = get_managed_symlinks(game_mods_dir, gameDir)]
            /\ UNCHANGED last
    /\ UNCHANGED <<instances, current_instance, state, state_file, library,
                   game_mods_dir, gameDir, resolverVars, storeVars, conflictVars>>

\* one iteration of the loop of clear_managed_symlinks, in the order of
\* iterdir(); fails: unlink() raises
UnlinkOne(n) ==
    /\ running.at = "engine"
    /\ n \in running.links
    /\ \E fails \in BOOLEAN :
          /\ gameDir' = IF fails THEN gameDir ELSE [gameDir EXCEPT ![n] = Absent]
          /\ running' = [running EXCEPT
                            !.links = @ \ {n},
                            !.removed = IF fails THEN @ ELSE @ + 1,
                            !.unremoved = IF fails THEN @ \cup {n} ELSE @]
    /\ UNCHANGED <<instances, current_instance, state, state_file, library,
                   game_mods_dir, last, steps, resolverVars, storeVars,
                   conflictVars>>

\* one iteration of the loop of activate_instance over the enabled mods
LinkOne ==
    /\ running.at = "engine"
    /\ running.links = {}
    /\ running.mods # <<>>
    /\ \E createFail \in SUBSET {Head(running.mods).filename} :
          LET r == CreateSymlink([count |-> running.count,
                                  errors |-> running.errors,
                                  dir |-> gameDir,
                                  created |-> running.created],
                                 Head(running.mods), library, createFail)
          IN  /\ gameDir' = r.dir
              /\ running' = [running EXCEPT
                                !.mods = Tail(@), !.count = r.count,
                                !.errors = r.errors, !.created = r.created]
    /\ UNCHANGED <<instances, current_instance, state, state_file, library,
                   game_mods_dir, last, steps, resolverVars, storeVars,
                   conflictVars>>

\* self.state.active_instance = name, or None, once the engine has returned
UpdateState ==
    /\ running.at = "engine"
    /\ running.links = {}
    /\ running.mods = <<>>
    /\ state' = [state EXCEPT !.active_instance = running.name]
    /\ running' = [running EXCEPT !.at = "open"]
    /\ UNCHANGED <<instances, current_instance, state_file, library,
                   game_mods_dir, gameDir, last, steps, resolverVars,
                   storeVars, conflictVars>>

\* save_state: open(self.state_file, 'w')
OpenStateFile ==
    /\ running.at = "open"
    /\ state_file' = TruncatedStateFile
    /\ running' = [running EXCEPT !.at = "dump"]
    /\ UNCHANGED <<instances, current_instance, state, library, game_mods_dir,
                   gameDir, last, steps, resolverVars, storeVars, conflictVars>>

\* save_state: json.dump and the close of the file; the handler returns
DumpState ==
    /\ running.at = "dump"
    /\ state_file' = save_state(state)
    /\ last' = [Done(running.op, running.name) EXCEPT
                   !.count = IF running.op = "activate"
                             THEN running.count ELSE running.removed,
                   !.errors = running.errors,
                   !.created = running.created,
                   !.unremoved = running.unremoved]
    /\ running' = NoRequest
    /\ UNCHANGED <<instances, current_instance, state, library, game_mods_dir,
                   gameDir, steps, resolverVars, storeVars, conflictVars>>

\* the mod lists an instance can have: library mods, each enabled or not
InstanceMods ==
    {[i \in 1..Len(q) |-> [Mod(q[i][1]) EXCEPT !.enabled = q[i][2]]] :
        q \in {p \in UNION {[1..k -> Filenames \X BOOLEAN] : k \in 0..2} :
                  \A i, j \in 1..Len(p) : i # j => p[i][1] # p[j][1]}}

\* instances were created and filled, nothing was ever activated
InitRequests ==
    /\ \E ma \in InstanceMods,
          mb \in {m \in InstanceMods : \A i \in 1..Len(m) : m[i].enabled} :
          instances = [n \in InstanceNames |->
                          [name |-> n, mods |-> IF n = "A" THEN ma ELSE mb]]
    /\ current_instance = NoInstance
    /\ state = AppState
    /\ state_file = NoStateFile
    /\ library \in {Filenames, {Pak("b")}}
    /\ \/ game_mods_dir = PaksPath /\ gameDir \in InitGameDirs
       \/ game_mods_dir = NoPath /\ gameDir = BaseDir
    /\ last = Done("init", None)
    /\ steps = 0
    /\ running = NoRequest
    /\ ResolverIdle
    /\ StoreIdle
    /\ ConflictsIdle

NextRequests ==
    \/ \E n \in InstanceNames : BeginActivate(n)
    \/ BeginDeactivate
    \/ \E n \in GameDirNames : UnlinkOne(n)
    \/ LinkOne
    \/ UpdateState
    \/ OpenStateFile
    \/ DumpState

SpecRequests == InitRequests /\ [][NextRequests]_vars

----------------------------------------------------------------------------
(* C22 *)

\* what load_state would return after a stop of the process at this point
PersistedActive == state_file.doc.active_instance

\* C22: at every point of an activate or deactivate request at which the
\* process may stop, the persisted active_instance agrees with the managed
\* symlinks: when it names an instance every managed symlink is one of that
\* instance's enabled mods, and when it names none there is no managed
\* symlink.
C22_CrashConsistent ==
    running # NoRequest =>
        IF PersistedActive = None
        THEN ManagedSymlinks(gameDir) = {}
        ELSE ManagedLinks(gameDir) \subseteq LinksOf(instances[PersistedActive])

----------------------------------------------------------------------------
(* C23 *)

\* the order of the checks, the creation last
CheckOrder ==
    <<"manifest", "game_dir", "compatdata_pfx", "mods_path", "appdata_local",
      "mkdir">>

\* what was tested in library i, in the order it was tested
RECURSIVE ProbesIn(_, _)
ProbesIn(probes, i) ==
    IF probes = <<>> THEN <<>>
    ELSE (IF Head(probes)[1] = i THEN <<Head(probes)[2]>> ELSE <<>>)
         \o ProbesIn(Tail(probes), i)

\* the outcome the first failing prerequisite of a library decides, and the
\* number of checks it takes
Outcome(d) ==
    IF ~d.manifest THEN [is |-> "KeepSearching", checks |-> 1]
    ELSE IF ~d.game_dir THEN [is |-> "GameFilesMissing", checks |-> 2]
    ELSE IF ~d.compatdata_pfx THEN [is |-> "PrefixMissing", checks |-> 3]
    ELSE IF d.mods_path THEN [is |-> "Found", checks |-> 4]
    ELSE IF ~d.appdata_local THEN [is |-> "PrefixIncomplete", checks |-> 5]
    ELSE [is |-> "Create", checks |-> 6]

Resolves == ~resolution.done /\ resolution'.done

\* C23: in every library root it examines, resolution tests the manifest,
\* the game directory, the prefix, the mod directory and AppData/Local in
\* that order and stops at the first that decides: KeepSearching without
\* the manifest, else GameFilesMissing without the game directory, else
\* PrefixMissing without the prefix, else Found when the mod directory
\* exists, else PrefixIncomplete without AppData/Local, else Found once the
\* directory is created or DirectoryCreateFailed when it cannot be.
C23_PrerequisiteOrder ==
    [][Resolves =>
        /\ libraries # <<>> => ProbesIn(resolution'.probes, 1) # <<>>
        /\ \A i \in 1..Len(libraries) :
              LET d == libraries[i]
                  tested == ProbesIn(resolution'.probes, i)
                  o == Outcome(d)
              IN  tested # <<>> =>
                    /\ tested = SubSeq(CheckOrder, 1, o.checks)
                    /\ o.is = "KeepSearching" =>
                          /\ resolution'.root # i
                          /\ IF i < Len(libraries)
                             THEN ProbesIn(resolution'.probes, i + 1) # <<>>
                             ELSE resolution'.error_message = "GameNotInstalled"
                    /\ o.is \in {"GameFilesMissing", "PrefixMissing", "PrefixIncomplete"} =>
                          /\ resolution'.error_message = o.is
                          /\ resolution'.game_mods_dir = NoPath
                    /\ o.is = "Found" =>
                          /\ resolution'.root = i
                          /\ resolution'.game_mods_dir = PaksPath
                          /\ resolution'.error_message = None
                    /\ o.is = "Create" =>
                          \/ /\ resolution'.root = i
                             /\ resolution'.game_mods_dir = PaksPath
                             /\ resolution'.error_message = None
                             /\ libraries'[i].mods_path
                          \/ /\ resolution'.error_message = "DirectoryCreateFailed"
                             /\ resolution'.game_mods_dir = NoPath
                             /\ ~libraries'[i].mods_path]_vars

\* the first library was passed over and the second has everything up to
\* the prefix, but no AppData/Local in it
C23_Witness ==
    /\ resolution.done
    /\ Len(libraries) = 2
    /\ ProbesIn(resolution.probes, 1) = <<"manifest">>
    /\ ProbesIn(resolution.probes, 2) = SubSeq(CheckOrder, 1, 5)
    /\ resolution.error_message = "PrefixIncomplete"
    /\ libraries[1].game_dir /\ libraries[1].compatdata_pfx

----------------------------------------------------------------------------
(* C24 *)

\* the library roots in which every prerequisite of the creation holds
Creatable(d) ==
    /\ d.manifest /\ d.game_dir /\ d.compatdata_pfx /\ d.appdata_local
    /\ ~d.mods_path

\* C24: resolution changes the file system only by creating the mod
\* directory in the root it is checking, and only when that root has the
\* manifest, the game directory, the prefix and AppData/Local and lacks the
\* mod directory; when it ends in GameFilesMissing, PrefixMissing,
\* PrefixIncomplete, SteamNotFound or GameNotInstalled, or finds a mod
\* directory that exists, every root is as it was.
C24_CreatesOnlyWhenComplete ==
    [][Resolves =>
        /\ Len(libraries') = Len(libraries)
        /\ \A i \in 1..Len(libraries) :
              libraries'[i] # libraries[i] =>
                 /\ Creatable(libraries[i])
                 /\ libraries'[i] = [libraries[i] EXCEPT !.mods_path = TRUE]
                 /\ resolution'.root = i
                 /\ \A j \in 1..(i - 1) : ~libraries[j].manifest
        /\ resolution'.error_message \in
              {"GameFilesMissing", "PrefixMissing", "PrefixIncomplete",
               "SteamNotFound", "GameNotInstalled"}
              => libraries' = libraries
        /\ (resolution'.root # 0 /\ libraries[resolution'.root].mods_path)
              => libraries' = libraries]_vars

\* the mod directory was created in the second root; the first, without a
\* manifest, also lacked it and still does
C24_Witness ==
    /\ resolution.done
    /\ resolution.root = 2
    /\ resolution.game_mods_dir = PaksPath
    /\ ProbesIn(resolution.probes, 2) = CheckOrder
    /\ libraries[2].mods_path
    /\ libraries[1].appdata_local /\ libraries[1].game_dir /\ ~libraries[1].mods_path

----------------------------------------------------------------------------
(* C25 *)

ActivateRuns == last'.op = "activate" /\ last'.done /\ steps' # steps

\* the name prefix + f is taken when the create step gets to it: the entry
\* is there and the clear step did not remove it
Taken(f) ==
    LET n == SymlinkName(f)
    IN  /\ gameDir[n].kind # "absent"
        /\ n \in ManagedSymlinks(gameDir) => n \in last'.unremoved

Recorded(errors, e) == \E k \in 1..Len(errors) : errors[k] = e

\* the create step went on: every other enabled mod whose name is free,
\* whose source exists and whose creation did not fail has its symlink
Continues(mods) ==
    /\ \A i \in 1..Len(mods) :
          (/\ ~Taken(mods[i].filename)
           /\ PathExists(mods[i].path, library)
           /\ ~Recorded(last'.errors, Error("CreateFailed", mods[i].filename)))
          => /\ gameDir'[SymlinkName(mods[i].filename)] = Symlink(mods[i].path)
             /\ mods[i].filename \in last'.created
    /\ last'.count = Cardinality(last'.created)

\* C25 as stated: for every enabled mod whose name prefix + filename is
\* taken, activate records an error naming that symlink, leaves the entry as
\* it is, does not count it, and goes on with the remaining enabled mods
\* (read with the mods aside for which the creation failed for another
\* reason than the name being taken).
C25_ExistingEntryRecorded ==
    [][ActivateRuns =>
        LET mods == EnabledOf(instances[last'.name])
        IN  /\ \A i \in 1..Len(mods) :
                  LET f == mods[i].filename
                  IN  (/\ Taken(f)
                       /\ ~Recorded(last'.errors, Error("CreateFailed", f))) =>
                        /\ Recorded(last'.errors, Error("AlreadyExists", SymlinkName(f)))
                        /\ gameDir'[SymlinkName(f)] = gameDir[SymlinkName(f)]
                        /\ f \notin last'.created
            /\ Continues(mods)]_vars

\* C25 amended: for every enabled mod whose name prefix + filename is taken,
\* activate leaves the entry and its target as they are, does not count the
\* mod, and goes on with the remaining enabled mods; it records one error for
\* the mod: the missing source when the source file is gone, otherwise an
\* error naming that symlink, or the creation failure when the creation
\* fails for another reason.
C25_ExistingEntryNeverOverwritten ==
    [][ActivateRuns =>
        LET mods == EnabledOf(instances[last'.name])
        IN  /\ \A i \in 1..Len(mods) :
                  LET f == mods[i].filename
                      about == {k \in 1..Len(last'.errors) :
                                   last'.errors[k].name \in {f, SymlinkName(f)}}
                  IN  Taken(f) =>
                        /\ gameDir'[SymlinkName(f)] = gameDir[SymlinkName(f)]
                        /\ f \notin last'.created
                        /\ Cardinality(about) = 1
                        /\ IF ~PathExists(mods[i].path, library)
                           THEN Recorded(last'.errors, Error("MissingSource", f))
                           ELSE \/ Recorded(last'.errors,
                                            Error("AlreadyExists", SymlinkName(f)))
                                \/ Recorded(last'.errors, Error("CreateFailed", f))
            /\ Continues(mods)]_vars

\* a file that is not the manager's keeps one name and a symlink the clear
\* step could not remove keeps the other; both are reported
C25_Witness ==
    /\ Activated
    /\ last.unremoved # {}
    /\ \E f, g \in Filenames :
          /\ f # g
          /\ SymlinkName(f) \in last.unremoved
          /\ gameDir[SymlinkName(f)].kind = "symlink"
          /\ gameDir[SymlinkName(g)].kind \in {"file", "dir"}
          /\ Recorded(last.errors, Error("AlreadyExists", SymlinkName(f)))
          /\ Recorded(last.errors, Error("AlreadyExists", SymlinkName(g)))

----------------------------------------------------------------------------
(* C26 *)

\* the files this call put into the library
CopiedByCall ==
    {f \in PackageNames : data_dir.mods[f] = NoFile /\ data_dir'.mods[f] # NoFile}

\* C26: a copy that fails for one extracted package file does not keep
\* import_archive from importing the others, and the mods it returns are
\* exactly the package files this call copied into the library: after a
\* call in which a copy failed, at most the one file whose copy failed is
\* missing from the library.
C26_ImportSurvivesOneFailure ==
    [][(returned'.op = "import_archive"
          /\ returned'.error \in {None, "ImportFailed"})
       => /\ FilenamesOf(returned'.mods) = CopiedByCall
          /\ Cardinality(PackageNamesIn(returned'.arg.tree)
                            \ Present(data_dir'.mods)) <= 1]_vars

----------------------------------------------------------------------------
(* C27 *)

DisabledFiles(inst) ==
    {inst.mods[i].filename : i \in {k \in 1..Len(inst.mods) : ~inst.mods[k].enabled}}

\* C27: an activate request that runs the engine accounts for every enabled
\* mod once: the count of symlinks created plus the number of errors is the
\* number of enabled mods of the instance; a disabled mod gets no symlink,
\* an entry under its name is at most removed, and no error names it.
C27_EveryEnabledModAccounted ==
    [][ActivateRuns =>
        LET inst == instances[last'.name]
        IN  /\ last'.count + Len(last'.errors) = Len(EnabledOf(inst))
            /\ last'.count = Cardinality(last'.created)
            /\ last'.created \subseteq FilenamesOf(EnabledOf(inst))
            /\ \A f \in DisabledFiles(inst) :
                  /\ f \notin last'.created
                  /\ gameDir'[SymlinkName(f)] \in {gameDir[SymlinkName(f)], Absent}
                  /\ {f, SymlinkName(f)} \cap ErrorNames(last'.errors) = {}]_vars

\* an instance with one mod disabled and one enabled was activated, and the
\* enabled one could not be linked
C27_Witness ==
    /\ Activated
    /\ Len(ActivatedInstance.mods) = 2
    /\ Cardinality(DisabledFiles(ActivatedInstance)) = 1
    /\ last.count = 0
    /\ Len(last.errors) = 1

----------------------------------------------------------------------------
(* C28 *)

\* C28: after any sequence of requests from a start without an active
\* instance, an active_instance that is set names an instance that is
\* persisted: list_instances lists it and load_instance returns it, under
\* that name; and the state document on disk holds the active_instance the
\* AppState in memory holds.
C28_ActiveInstanceExists ==
    /\ state.active_instance # None =>
          /\ state.active_instance \in list_instances(instances)
          /\ load_instance(instances, state.active_instance) # NoInstance
          /\ load_instance(instances, state.active_instance).name =
                state.active_instance
          /\ state_file.exists
    /\ state_file.doc.active_instance = state.active_instance

\* with one instance active, the other one was deleted
C28_Witness ==
    /\ last.op = "delete_instance"
    /\ last.done
    /\ state.active_instance # None
    /\ state.active_instance # last.name
    /\ state.active_instance \in list_instances(instances)
    /\ state_file.doc.active_instance = state.active_instance

====
